---- MODULE Spec2Model ----
(***************************************************************************)
(* A model of the NGNX view registry state machine (NGNX.VIEW.Registry):   *)
(* the `state` setter with its pre/post-state hooks, the task list that    *)
(* serialises the hooks, reactions to a parent registry, reflexes on a     *)
(* peer registry, and the bridging of property-model notifications.        *)
(*                                                                         *)
(* Three registries are constructed, in this order:                        *)
(*   P  namespace 'p.', a property schema, user-configured hooks           *)
(*   C  child of P (namespace 'c.'), reactions online->connected,          *)
(*      offline->disconnected                                              *)
(*   B  namespace 'b.', no parent, one reflex on P with the same map       *)
(* Every action is one turn of the JavaScript event loop: the whole        *)
(* synchronous call tree of a state assignment, of a timer that calls a    *)
(* hook's continuation, of the deferred initial state, or of a property    *)
(* model notification.                                                     *)
(*                                                                         *)
(* The second part models the reference manager (NGNX.REF) and the         *)
(* HTMLReferenceElement objects it creates: the compression of listeners   *)
(* in on(), once() and off(), and the dispatch of a bubbling click to the  *)
(* listeners on a fixed document.  There a turn is one call of the API or  *)
(* one click.                                                              *)
(***************************************************************************)
EXTENDS Naturals, Integers, Sequences, FiniteSets, TLC

VARIABLES
  cfgs,           \* r -> the cfg its constructor was given: namespace, parent,
                  \*      states (the names), reactions and reflexes; assigns
                  \*      maps a state whose handler assigns `state` to the
                  \*      value it assigns
  state,          \* r -> _state
  previousstate,  \* r -> _previousstate (Null until the first update)
  prestates,      \* r -> Null, or a map hook name -> hook
  poststates,     \* r -> Null, or the set of names that have a post-state hook
  initialstate,   \* r -> the configured initial state
  init,           \* r -> cfg.init: Null, or the init function
  initcalls,      \* r -> how often the continuation given to init was called
  timers,         \* the callbacks requeued with setTimeout(fn, 0), oldest first
  reactions,      \* r -> Null, or a map parent state -> own state
  reflexes,       \* r -> sequence of [registry, reactions]
  subs,           \* NGN.BUS: sequence of [topic, owner, fn, registry]
  properties,     \* P's property model: field -> value, Undefined when absent
  runs,           \* the task lists whose continuations may still be called
  out,            \* what the last turn did, in order
  op,             \* the last turn: what was called, and the state before it
  exc,            \* the exception the last turn ended with, NoExc when none
  sel,            \* the selector the page's references are created with
  document,       \* the nodes that are in the document
  objects,        \* the HTMLReferenceElement objects created so far
  manager,        \* NGNX.REF: key -> index in `objects` of its reference, 0 if none
  collection,     \* NGNX.REF.collection: the keys, in creation order
  deepcollapse,   \* NGNX.REF.deepcollapse
  listeners,      \* the native listeners attached to nodes, in attachment order
  registered,     \* how many on()/once() calls have attached listeners
  arraycontains,  \* whether the page defines Array.prototype.contains
  views,          \* the registries and components constructed later, in order
  monitoring,     \* P's monitoring flag
  monitor,        \* P's _monitor: null, or the MutationObserver and its target
  pending,        \* the mutations whose setTimeout callback has not run yet
  emitted,        \* emissions of element.removed since enableElementMonitor
  loader          \* the one call of NGNX.Loader: its arrays, requests and timers

vars ==
  <<cfgs, state, previousstate, prestates, poststates, initialstate, init, initcalls,
    timers, reactions, reflexes, subs, properties, runs, out, op, exc,
    sel, document, objects, manager, collection, deepcollapse, listeners,
    registered, arraycontains, views, monitoring, monitor, pending, emitted,
    loader>>

\* The variables of the reference manager and of the document.
refvars ==
  <<sel, document, objects, manager, collection, deepcollapse, listeners,
    registered>>

\* The variables of the view registries.
regvars ==
  <<cfgs, state, previousstate, prestates, poststates, initialstate, init, initcalls,
    timers, reactions, reflexes, subs, properties, runs>>

\* What the page provides, and what is constructed on it later.
pagevars ==
  <<arraycontains, views, monitoring, monitor, pending, emitted, loader>>

\* The element monitor of P.
monitorvars ==
  <<monitoring, monitor, pending, emitted>>

-----------------------------------------------------------------------------
(* Bounds *)

\* Task lists with a live continuation that are kept at the same time.
MaxRuns == 1

\* Calls of the continuations of one task list that are followed.
MaxProceed == 2

\* Nesting depth of state assignments inside one turn.
MaxDepth == 3

\* HTMLReferenceElement objects that are created.
MaxRefs == 2

\* Calls of on() and once() that are followed.
MaxOn == 1

\* Registries and components constructed after the first three.
MaxViews == 2

\* Mutations whose setTimeout callback is still to run.
MaxPending == 2

\* Task lists with a live continuation that are kept at the same time when
\* assignments overlap.
MaxOverlap == 2

-----------------------------------------------------------------------------
(* Values *)

Null == "null"
Undefined == "undefined"
NoExc == "none"

Regs == {"P", "C", "B"}

\* NGN.coalesce: the first argument that is neither null nor undefined.
coalesce2(a, b) ==
  IF a # Null /\ a # Undefined THEN a ELSE b

coalesce3(a, b, c) ==
  coalesce2(a, coalesce2(b, c))

\* String.prototype.trim on the state names that occur.
Trim(s) ==
  IF s = " away" THEN "away" ELSE s

\* JavaScript truthiness of the values a hook returns.
Truthy(v) ==
  v \notin {"false", Null, Undefined, "0", ""}

-----------------------------------------------------------------------------
(* Configuration of the three registries *)

\* cfg.namespace
namespace(r) ==
  cfgs[r].namespace

\* cfg.parent
parent(r) ==
  cfgs[r].parent

\* Driver scope: cfg.namespace, prefixed by the parent's scope.
RECURSIVE scope(_)
scope(r) ==
  IF parent(r) # Null
    THEN IF namespace(r) # Undefined
           THEN IF scope(parent(r)) # Null
                  THEN scope(parent(r)) \o namespace(r)
                  ELSE namespace(r)
           ELSE IF scope(parent(r)) # Null THEN scope(parent(r)) ELSE Null
    ELSE IF namespace(r) \in {Undefined, ""} THEN Null ELSE namespace(r)

\* cfg.states, before the constructor adds 'default'.
cfgStates(r) ==
  cfgs[r].states

\* The states whose handler throws an Error.
throwing(r) ==
  IF r = "P" THEN {"broken"} ELSE {"faulty"}

\* this._states: the constructor assures a 'default' handler.
states(r) ==
  cfgStates(r) \cup {"default"}

\* The constructor's `arguments`: the configuration object, which has neither
\* an `old` nor a `new` property.
ConstructorArguments(r) ==
  [tag |-> "cfg", name |-> r, property |-> Null, old |-> Undefined, new |-> Undefined]

\* A pre-state hook: the number of parameters it declares (arity), and what it
\* returns (ret).
Sync == [arity |-> 2, ret |-> Undefined]
Veto == [arity |-> 2, ret |-> "false"]
Async == [arity |-> 3, ret |-> Undefined]
AsyncFalse == [arity |-> 3, ret |-> "false"]

\* A JavaScript object used as a map, or null.
EmptyMap ==
  [x \in {} |-> Null]

ObjNull ==
  [null |-> TRUE, map |-> EmptyMap]

Obj(f) ==
  [null |-> FALSE, map |-> f]

\* cfg.postStates with a global and an 'online' hook.
BothPost ==
  Obj([h \in {"*", "online"} |-> "function"])

\* The states of a registry that follows another one, for the states of the
\* registry it follows.
Following ==
  [s \in {"online", "offline"} |-> IF s = "online" THEN "connected" ELSE "disconnected"]

\* The three registries as the test suite configures them: P with namespace
\* 'p.', its child C with 'c.' and reactions, and B with 'b.' and a reflex
\* on P.
Separate ==
  [r \in Regs |->
     [namespace |-> CASE r = "P" -> "p." [] r = "C" -> "c." [] OTHER -> "b.",
      parent |-> IF r = "C" THEN "P" ELSE Null,
      states |-> IF r = "P" THEN {"offline", "online", " away", "broken"}
                 ELSE {"connected", "disconnected", "faulty"},
      reactions |-> IF r = "C" THEN Obj(Following) ELSE ObjNull,
      reflexes |-> IF r = "B" THEN << [registry |-> "P", reactions |-> Following] >>
                   ELSE << >>,
      assigns |-> EmptyMap]]

\* cfg.init: null, or a function with `length` parameters that calls the
\* continuation it is given `calls` times before it returns.
NoInit == [null |-> TRUE, length |-> 0, calls |-> 0]
InitSync == [null |-> FALSE, length |-> 0, calls |-> 0]
InitNow == [null |-> FALSE, length |-> 1, calls |-> 1]
InitLater == [null |-> FALSE, length |-> 1, calls |-> 0]

\* The configurations P is constructed with: cfg.preStates, cfg.postStates,
\* cfg.initialState and cfg.init.
ParentConfigs ==
  { [pre |-> ObjNull, post |-> ObjNull, initial |-> "default", init |-> InitLater],
    [pre |-> ObjNull, post |-> BothPost, initial |-> "offline", init |-> InitNow],
    [pre |-> Obj([h \in {"*", "online", "offline"} |->
                    CASE h = "*" -> Async [] h = "online" -> Sync [] OTHER -> Veto]),
     post |-> BothPost, initial |-> "default", init |-> NoInit],
    [pre |-> Obj([h \in {"*", "online"} |-> Async]),
     post |-> ObjNull, initial |-> "default", init |-> NoInit],
    [pre |-> Obj([h \in {"*", "online"} |-> IF h = "*" THEN Sync ELSE AsyncFalse]),
     post |-> BothPost, initial |-> "default", init |-> InitSync],
    [pre |-> Obj([h \in {"*", "online"} |-> IF h = "*" THEN Veto ELSE Sync]),
     post |-> ObjNull, initial |-> "offline", init |-> InitSync] }

\* The configurations of the three registries: cfg.preStates of C and of B are
\* null, or C has a hook with a continuation and B one that refuses.
Configs ==
  { [pre |-> c.pre, post |-> c.post, initial |-> c.initial, init |-> c.init,
     cpre |-> ObjNull, bpre |-> ObjNull] : c \in ParentConfigs }
  \cup
  { [pre |-> ObjNull, post |-> ObjNull, initial |-> "default", init |-> NoInit,
     cpre |-> Obj([h \in {"connected"} |-> Async]),
     bpre |-> Obj([h \in {"*"} |-> Veto])] }

\* The state names assigned from outside.
AssignValues(r) ==
  IF r = "P" THEN {"offline", "online", " away", "away", "bogus", Null}
  ELSE IF r = "C" THEN {"default", "bogus"}
  ELSE {"bogus"}

Fields == {"title", "extra"}
Values == {"Online", "Offline"}

-----------------------------------------------------------------------------
(* Records *)

Change(old, new) ==
  [tag |-> "change", name |-> Null, property |-> Null, old |-> old, new |-> new]

PropertyChange(f, old, new) ==
  [tag |-> "property", name |-> Null, property |-> f, old |-> old, new |-> new]

NamePayload(x) ==
  [tag |-> "name", name |-> x, property |-> Null, old |-> Null, new |-> Null]

NoPayload ==
  [tag |-> "none", name |-> Null, property |-> Null, old |-> Null, new |-> Null]

\* One entry of `out`: k is what happened, r the registry, x the state, hook
\* or topic name, p the argument or payload, st the registry's state at that
\* moment, run the task list (a copy) that did it, NoRun outside a task list.
\* A task list is the closure of one assignment: r and value, the `updated`
\* flag, the queued steps and whether they are skipped, and, as history, the
\* hooks it has (hooks), those whose continuation exists (next), those that
\* completed (done) or returned false (refused), the order they were called
\* in (called), the continuation calls (calls) and the updates applied.
Ev(k, r, x, p, st, run) ==
  [k |-> k, r |-> r, x |-> x, p |-> p, st |-> st, run |-> run]

NoRun ==
  [r |-> Null, value |-> Null, updated |-> FALSE, steps |-> <<>>, skip |-> FALSE,
   hooks |-> {}, next |-> {}, done |-> {}, refused |-> {}, called |-> <<>>,
   calls |-> 0, applied |-> 0]

Log(m, e) ==
  [m EXCEPT !.out = Append(@, e)]

Throw(m, r, e) ==
  [m EXCEPT !.exc = e, !.out = Append(@, Ev("throw", r, e, NoPayload, m.state[r], NoRun))]

-----------------------------------------------------------------------------
(* Getters and predicates of a registry *)

\* get state
State(m, r) ==
  coalesce2(m.state[r], "default")

\* get previousState
PreviousState(m, r) ==
  coalesce2(m.previousstate[r], "default")

managesState(r, s) ==
  s \in states(r)

managesPreState(r, s) ==
  IF prestates[r].null THEN FALSE ELSE s \in DOMAIN prestates[r].map

managesPostState(r, s) ==
  IF poststates[r].null THEN FALSE ELSE s \in DOMAIN poststates[r].map

\* get reactions
Reactions(r) ==
  IF reactions[r].null THEN EmptyMap ELSE reactions[r].map

\* A lookup of the parent state among the registry's own states.
managesReactionAsState(r, s) ==
  managesState(r, s)

managesReaction(r, s) ==
  s \in DOMAIN Reactions(r)

\* getRegistryReflex: the reflex of `registry` when there is exactly one.
getRegistryReflex(r, registry) ==
  SelectSeq(reflexes[r], LAMBDA x : x.registry = registry)

\* getRegistryReflexReactions; undefined (ObjNull) when the registry has no reflex.
getRegistryReflexReactions(r, registry) ==
  LET found == getRegistryReflex(r, registry)
  IN IF Len(found) = 1 THEN Obj(found[1].reactions) ELSE ObjNull

-----------------------------------------------------------------------------
(* The state setter, its task list and the bus, as operators on a record     *)
(* m = [state, previousstate, runs, out, exc] that is threaded through one   *)
(* synchronous call tree.  A thrown exception (m.exc # NoExc) unwinds the    *)
(* whole tree: nothing in this code catches one without rethrowing.          *)

SetTask == "#set"

\* An update without the `updated` guard.
updatedIgnored(run) ==
  FALSE

\* if (updated) { return }
alreadyUpdated(run) ==
  run.updated

\* The setter without its early return.
noChangeIgnored(current, value) ==
  FALSE

\* if (this.state === value) { return }
noChange(current, value) ==
  current = value

\* A setter that takes every return value for approval.
continueAlways(hook) ==
  "true"

\* NGN.coalesce(hook.apply(...), true)
continueProcessing(hook) ==
  coalesce2(hook.ret, "true")

\* Support synchronous execution when applicable: length !== 3
synchronous(hook) ==
  hook.arity # 3

\* The post-state hooks with the hook of the state before the global one.
postHooksStateFirst(r, value) ==
  SelectSeq(<<value, "*">>, LAMBDA h : managesPostState(r, h))

\* The post-state hooks of an update, in the order updateState tests them.
postHooks(r, value) ==
  SelectSeq(<<"*", value>>, LAMBDA h : managesPostState(r, h))

\* The tasks of an assignment, in the order they are added.
taskList(r, value) ==
  SelectSeq(<<"*", value>>, LAMBDA h : managesPreState(r, h)) \o <<SetTask>>

\* The wrapper the constructor puts around every state handler applies the
\* handler to `arguments`, which in an arrow function are the constructor's.
handlerArguments(r, change) ==
  ConstructorArguments(r)

\* A lookup among the values of the map instead of its keys.
hasOwnValue(map, key) ==
  \E k \in DOMAIN map : map[k] = key

\* reactions.hasOwnProperty(registry.state)
hasOwnProperty(map, key) ==
  key \in DOMAIN map

\* A wrapper whose catch block does not throw again.
swallowed(m, r, e) ==
  m

\* The wrapper the constructor puts around every state handler:
\* try { handlerFn.apply(this, arguments) } catch (e) { ...; throw e }
rethrown(m, r, e) ==
  Throw(m, r, e)

RECURSIVE SetState(_, _, _, _)

\* this._states[key](change); the handler returns, throws, or assigns
\* this.state before it returns.
stateHandler(m, r, key, change, run, depth) ==
  IF key \notin states(r)
    THEN Throw(m, r, "TypeError")
    ELSE LET called == Log(m, Ev("handler", r, key, handlerArguments(r, change),
                                 m.state[r], run))
         IN IF key \in throwing(r) THEN rethrown(called, r, "Error")
            ELSE IF key \in DOMAIN cfgs[r].assigns
              THEN SetState(called, r, cfgs[r].assigns[key], depth)
            ELSE called

\* Driver.emit: the scope is prepended to the topic.
topicOf(r, name) ==
  scope(r) \o name

\* Driver.on: the scope is prepended to the topic.
subscription(r, name, fn, registry) ==
  [topic |-> topicOf(r, name), owner |-> r, fn |-> fn, registry |-> registry]

RECURSIVE updateState(_, _, _)
RECURSIVE emit(_, _, _, _, _)
RECURSIVE dispatch(_, _, _, _)
RECURSIVE handle(_, _, _, _)
RECURSIVE runPostHooks(_, _, _, _)
RECURSIVE next(_, _, _)
RECURSIVE runTask(_, _, _, _)

\* set state (value)
SetState(m, r, v, depth) ==
  LET value == coalesce3(v, initialstate[r], "default")
  IN IF depth = 0 THEN Throw(m, r, "RangeError")
     ELSE IF noChange(State(m, r), value) THEN m
     ELSE IF ~managesState(r, value) THEN Throw(m, r, "InvalidState")
     ELSE
       LET id == Len(m.runs) + 1
           tasks == taskList(r, value)
           run == [NoRun EXCEPT !.r = r, !.value = value,
                                !.hooks = {tasks[i] : i \in 1..Len(tasks)} \ {SetTask}]
           m1 == [m EXCEPT !.runs = Append(@, run)]
           m2 == IF ~managesPreState(r, "*") /\ ~managesPreState(r, value)
                   THEN updateState(m1, id, depth - 1)
                   ELSE m1
       IN IF m2.exc # NoExc THEN m2
          ELSE next([m2 EXCEPT !.runs[id].steps = tasks], id, depth - 1)

\* const updateState = () => { ... }
updateState(m, id, depth) ==
  LET run == m.runs[id]
      r == run.r
  IN IF alreadyUpdated(run) THEN m
     ELSE
       LET old == State(m, r)
           new == Trim(run.value)
           change == Change(old, new)
           m1 == [m EXCEPT !.runs[id].updated = TRUE,
                           !.runs[id].applied = @ + 1,
                           !.previousstate[r] = old,
                           !.state[r] = new]
           m2 == Log(m1, Ev("write", r, new, change, new, m1.runs[id]))
           m3 == stateHandler(m2, r, new, change, m1.runs[id], depth)
           m4 == IF m3.exc # NoExc THEN m3
                 ELSE emit(m3, r, "state.changed", change, depth)
       IN runPostHooks(m4, id, postHooks(r, run.value), depth)

\* this._poststates[h](); this.emit('state.postprocess', h)
runPostHooks(m, id, hs, depth) ==
  IF hs = <<>> \/ m.exc # NoExc THEN m
  ELSE
    LET r == m.runs[id].r
        m1 == Log(m, Ev("posthook", r, Head(hs), NoPayload, State(m, r), m.runs[id]))
    IN runPostHooks(emit(m1, r, "state.postprocess", NamePayload(Head(hs)), depth),
                    id, Tail(hs), depth)

\* Driver.emit, NGN.BUS.emit: the handlers of the topic, in subscription order.
emit(m, r, name, payload, depth) ==
  LET topic == topicOf(r, name)
      m1 == Log(m, Ev("emit", r, topic, payload, State(m, r), NoRun))
  IN dispatch(m1, SelectSeq(subs, LAMBDA s : s.topic = topic), payload, depth)

\* One abort for all task lists that are under way.
abortEvery(m, id) ==
  [m EXCEPT !.runs = [j \in DOMAIN m.runs |-> [m.runs[j] EXCEPT !.skip = TRUE]]]

\* tasks.abort(): the steps of this task list that are still queued are skipped.
abort(m, id) ==
  [m EXCEPT !.runs[id].skip = TRUE]

\* A bus that calls its subscribers later, not inside emit().
dispatchLater(m, hs, payload, depth) ==
  m

dispatch(m, hs, payload, depth) ==
  IF hs = <<>> \/ m.exc # NoExc THEN m
  ELSE dispatch(handle(m, Head(hs), payload, depth), Tail(hs), payload, depth)

\* The bus handlers the constructor registers.
handle(m, s, payload, depth) ==
  CASE s.fn = "bubbleState" ->
         emit(m, s.owner, "parent.state.changed", payload, depth)
    [] s.fn = "bubbleProperty" ->
         emit(m, s.owner, "parent.property.changed", payload, depth)
    [] s.fn = "reaction" ->
         IF managesReaction(s.owner, payload.new)
           THEN SetState(m, s.owner, Reactions(s.owner)[payload.new], depth)
           ELSE m
    [] s.fn = "reflex" ->
         LET found == getRegistryReflexReactions(s.owner, s.registry)
         IN IF found.null THEN Throw(m, s.owner, "TypeError")
            ELSE IF hasOwnProperty(found.map, State(m, s.registry))
              THEN SetState(m, s.owner, found.map[State(m, s.registry)], depth)
              ELSE m
    [] s.fn = "observer" ->
         Log(m, Ev("observe", s.owner, s.topic, payload, State(m, s.owner), NoRun))
    [] s.fn = "propertyField" ->
         emit(m, s.owner, "property." \o payload.property \o ".changed",
              Change(payload.old, payload.new), depth)
    [] OTHER -> m

\* The sequential task list: a completed step starts the next queued one; a
\* skipped step does not run.
next(m, id, depth) ==
  LET run == m.runs[id]
  IN IF run.steps = <<>> THEN m
     ELSE IF run.skip THEN [m EXCEPT !.runs[id].steps = Tail(@)]
     ELSE runTask([m EXCEPT !.runs[id].steps = Tail(@)], id, Head(run.steps), depth)

\* QueueItem.run on one task of the setter.
runTask(m, id, task, depth) ==
  LET run == m.runs[id]
      r == run.r
  IN IF task = SetTask
       THEN \* updateState declares no parameter: the step completes on return
            LET m1 == updateState(m, id, depth)
            IN IF m1.exc # NoExc THEN m1 ELSE next(m1, id, depth)
       ELSE
         LET hook == prestates[r].map[task]
             m1 == Log([m EXCEPT !.runs[id].called = Append(@, task),
                                 !.runs[id].refused =
                                   IF hook.ret = "false" THEN @ \cup {task} ELSE @],
                       Ev("prehook", r, task, Change(State(m, r), run.value),
                          State(m, r), run))
         IN IF synchronous(hook)
              THEN IF Truthy(continueProcessing(hook))
                     THEN LET m2 == emit([m1 EXCEPT !.runs[id].done = @ \cup {task}],
                                         r, "state.preprocess", NamePayload(task), depth)
                          IN IF m2.exc # NoExc THEN m2 ELSE next(m2, id, depth)
                     ELSE abort(m1, id)
              ELSE [m1 EXCEPT !.runs[id].next = @ \cup {task}]

\* The continuation handed to a pre-state hook.
proceed(m, id, task, depth) ==
  LET r == m.runs[id].r
      m1 == [m EXCEPT !.runs[id].done = @ \cup {task}, !.runs[id].calls = @ + 1]
      m2 == emit(Log(m1, Ev("continuation", r, task, NoPayload, State(m, r), m1.runs[id])),
                 r, "state.preprocess", NamePayload(task), depth)
  IN IF m2.exc # NoExc THEN m2 ELSE next(m2, id, depth)

-----------------------------------------------------------------------------
(* The document the references select from *)
(*                                                                          *)
(*   html - head - t1                                                       *)
(*        - body - nav  - a1, a2, a3 (- s3), p1                             *)
(*                - main - sec1 - b1                                        *)
(*                       - sec2 - b2                                        *)
(*                       - m1                                               *)
(*                       - w01 - w02 - ... - w20 - deep                     *)
(*                - foot - c1                                               *)

\* Twenty nested wrappers between main and the element `deep`.
Chain ==
  << "w01", "w02", "w03", "w04", "w05", "w06", "w07", "w08", "w09", "w10",
     "w11", "w12", "w13", "w14", "w15", "w16", "w17", "w18", "w19", "w20" >>

DocumentOrder ==
  << "html", "head", "t1", "body", "nav", "a1", "a2", "a3", "s3", "p1", "main", "sec1", "b1",
     "sec2", "b2", "m1" >> \o Chain \o << "deep", "foot", "c1" >>

Nodes ==
  {DocumentOrder[i] : i \in 1..Len(DocumentOrder)}

\* node.parentNode, Null above the root element
parentNode(n) ==
  CASE n = "html" -> Null
    [] n \in {"nav", "main", "foot"} -> "body"
    [] n \in {"a1", "a2", "a3", "p1"} -> "nav"
    [] n = "s3" -> "a3"
    [] n \in {"sec1", "sec2", "m1", "w01"} -> "main"
    [] n = "b1" -> "sec1"
    [] n = "b2" -> "sec2"
    [] n = "c1" -> "foot"
    [] n = "deep" -> "w20"
    [] n \in {"head", "body"} -> "html"
    [] n = "t1" -> "head"
    [] OTHER -> LET i == CHOOSE j \in 2..Len(Chain) : Chain[j] = n IN Chain[i - 1]

\* The elements a selector matches in the whole tree.
matches(selector) ==
  CASE selector = ".link" -> {"a1", "a2", "a3"}
    [] selector = ".pair" -> {"a1", "a2"}
    [] selector = ".btn" -> {"b1", "b2"}
    [] selector = ".mix" -> {"m1", "b1", "b2"}
    [] selector = ".far" -> {"m1", "deep"}
    [] selector = ".wide" -> {"a1", "c1"}
    [] selector = ".any" -> {"t1", "c1"}
    [] selector = ".one" -> {"c1"}
    [] selector = ".nest" -> {"a3", "s3"}
    [] selector = "main" -> {"main"}
    [] OTHER -> {}

Selectors ==
  {".link", ".pair", ".btn", ".mix", ".far", ".wide", ".any", ".one", ".nest",
   ".none"}

\* The node and its ancestors, innermost first: the path an event bubbles along.
RECURSIVE Path(_)
Path(n) ==
  IF n = Null THEN << >> ELSE << n >> \o Path(parentNode(n))

Ancestors(n) ==
  LET path == Path(n)
  IN {path[i] : i \in 2..Len(path)}

Depth(n) ==
  Len(Path(n))

\* document.querySelectorAll(selector), on the nodes that are in the document
querySelectorAll(doc, selector) ==
  SelectSeq(DocumentOrder, LAMBDA n : n \in doc /\ n \in matches(selector))

\* NGN.DOM.findParent(node, selector): the nearest ancestor that matches
findParent(doc, node, selector) ==
  LET found == SelectSeq(Tail(Path(node)),
                         LAMBDA n : n \in doc /\ n \in matches(selector))
  IN IF found = << >> THEN Null ELSE Head(found)

\* NGN.dedupe(array): the first occurrence of every member, in order
RECURSIVE dedupe(_)
dedupe(seq) ==
  IF seq = << >> THEN << >>
  ELSE LET front == dedupe(SubSeq(seq, 1, Len(seq) - 1))
           last == seq[Len(seq)]
       IN IF \E i \in 1..Len(front) : front[i] = last THEN front
          ELSE Append(front, last)

\* A sequence of numbers in ascending order.
RECURSIVE Sorted(_)
Sorted(seq) ==
  IF seq = << >> THEN << >>
  ELSE LET i == CHOOSE j \in 1..Len(seq) : \A k \in 1..Len(seq) : seq[j] <= seq[k]
       IN << seq[i] >> \o Sorted([k \in 1..(Len(seq) - 1) |->
                                    IF k < i THEN seq[k] ELSE seq[k + 1]])

RECURSIVE Sum(_)
Sum(seq) ==
  IF seq = << >> THEN 0 ELSE Head(seq) + Sum(Tail(seq))

\* NGN.DOM.getCommonAncestorDetail(elements): the nearest common ancestor and
\* the distances from it to the elements.  The average is kept as sum and
\* count, the median as twice its value, so that both stay integers.
getCommonAncestorDetail(elements) ==
  LET common == SelectSeq(Tail(Path(elements[1])),
                          LAMBDA a : \A i \in 1..Len(elements) :
                                       a \in Ancestors(elements[i]))
      element == Head(common)
      gaps == Sorted([i \in 1..Len(elements) |-> Depth(elements[i]) - Depth(element)])
      n == Len(gaps)
  IN [element |-> element,
      gap |-> [sum |-> Sum(gaps), count |-> n,
               median2 |-> IF n % 2 = 1 THEN 2 * gaps[(n + 1) \div 2]
                           ELSE gaps[n \div 2] + gaps[n \div 2 + 1]]]

-----------------------------------------------------------------------------
(* HTMLReferenceElement: the getters and the event methods, as operators on *)
(* a record t = [listeners, out, exc, wrappers] that is threaded through    *)
(* one synchronous call tree.                                                *)

\* The names references are created under.  `collection` is the name of one of
\* the manager's own members.
Keys == {"test", "collection"}

\* The user's event handlers.
Handlers == {"h"}

\* The average gap from which a selection counts as deeply nested.
GapLimit == 10

\* new HTMLReferenceElement(selector).  The selectors of this document are
\* single class selectors, which are in normal form already.
HTMLReferenceElement(selector) ==
  [originalselector |-> selector, activeselector |-> selector,
   deepcollapse |-> FALSE, smartevents |-> TRUE]

\* A JavaScript value that holds nodes: null, one element, a NodeList or an array.
JsNull == [kind |-> "null", nodes |-> << >>]
JsElement(n) == [kind |-> "element", nodes |-> << n >>]
JsNodeList(ns) == [kind |-> "nodelist", nodes |-> ns]
JsArray(ns) == [kind |-> "array", nodes |-> ns]

\* get element
element(ref) ==
  LET elements == querySelectorAll(document, ref.activeselector)
  IN IF Len(elements) = 0 THEN JsNull
     ELSE IF Len(elements) = 1 THEN JsElement(elements[1])
     ELSE JsNodeList(elements)

\* NGN.slice(o), which is Array.prototype.slice.call(o): the indexed members
\* of o.  An element has none.
slice(o) ==
  IF o.kind \in {"nodelist", "array"} THEN o.nodes ELSE << >>

\* get elements, for a reference without filters
elements(ref) ==
  slice(element(ref))

\* get length
length(ref) ==
  Len(querySelectorAll(document, ref.activeselector))

\* get empty
empty(ref) ==
  length(ref) = 0

\* get eventCompression
eventCompression(ref) ==
  ref.smartevents

\* `elements <= 1`, an array compared with a number: the array is converted to
\* a string and that to a number, which gives 0 for the empty array and NaN
\* for an array of nodes.
atMostOne(els) ==
  els = << >>

collapsibleOrEqual(parentNodes, els) ==
  2 * Len(parentNodes) <= Len(els)

\* (parentNodes.length / elements.length) < 0.5
collapsible(parentNodes, els) ==
  2 * Len(parentNodes) < Len(els)

\* ancestor.gap.average < ancestor.gap.median || ancestor.gap.average >= 10
skewedOrDeep(gap) ==
  \/ 2 * gap.sum < gap.median2 * gap.count
  \/ gap.sum >= GapLimit * gap.count

\* ancestor === document.body, where ancestor is the detail object
isBody(ancestor) ==
  [object |-> "detail", element |-> ancestor.element]
    = [object |-> "node", element |-> "body"]

\* getCollapsedDomStructure()
getCollapsedDomStructure(ref) ==
  LET els == elements(ref)
      parentNodes == dedupe([i \in 1..Len(els) |-> parentNode(els[i])])
      ancestor == getCommonAncestorDetail(els)
  IN IF atMostOne(els) THEN element(ref)
     ELSE IF collapsible(parentNodes, els) THEN JsArray(parentNodes)
     ELSE IF ~ref.deepcollapse THEN JsArray(els)
     ELSE IF skewedOrDeep(ancestor.gap) THEN JsArray(els)
     ELSE IF isBody(ancestor) THEN JsArray(els)
     ELSE JsArray(<< ancestor.element >>)

\* The nodes the event methods add listeners to or remove them from:
\*   elements = this.eventCompression ? this.getCollapsedDomStructure() : this.elements
\*   elements = NGN.typeof(elements) === 'array' ? elements : [elements]
\* A member that is not a node (null or a NodeList) has no addEventListener.
attachmentPoints(ref) ==
  LET els == IF eventCompression(ref) THEN getCollapsedDomStructure(ref)
             ELSE JsArray(elements(ref))
  IN IF els.kind \in {"array", "element"} THEN [nodes |-> els.nodes, exc |-> NoExc]
     ELSE [nodes |-> << >>, exc |-> "TypeError"]

\* The record of a reference turn at its start; wrappers counts the functions
\* wrapHandlerMethod returned that are still attached somewhere.
RECURSIVE MaxWrapper(_)
MaxWrapper(ls) ==
  IF ls = << >> THEN 0
  ELSE LET rest == MaxWrapper(Tail(ls))
       IN IF Head(ls).wrapper.id > rest THEN Head(ls).wrapper.id ELSE rest

StartRef ==
  [listeners |-> listeners, out |-> << >>, exc |-> NoExc,
   wrappers |-> MaxWrapper(listeners)]

\* The event object, as the user's handler gets it: `passed` tells whether it
\* came as the argument or as `this`, reg which on()/once() call is served.
EventPayload(event, passed, reg) ==
  [tag |-> "event", name |-> event.target, property |-> passed, old |-> Null,
   new |-> ToString(reg)]

\* An error thrown in the call named x.
RefThrow(t, x, e) ==
  [t EXCEPT !.exc = e, !.out = Append(@, Ev("throw", x, e, NoPayload, Null, NoRun))]

\* The function the user's handler is wrapped in by on() (the handler itself)
\* or by once() (a function that calls it and then off()); me is the
\* reference, reg the number of the on()/once() call.
UserFn(handler, me, reg) ==
  [kind |-> "user", handler |-> handler, me |-> me, reg |-> reg]

OnceFn(handler, me, reg) ==
  [kind |-> "once", handler |-> handler, me |-> me, reg |-> reg]

\* wrapHandlerMethod(handlerFn): a function that did not exist before
wrapHandlerMethod(t, me, fn) ==
  [t |-> [t EXCEPT !.wrappers = @ + 1],
   wrapper |-> [id |-> t.wrappers + 1, me |-> me, fn |-> fn]]

\* node.addEventListener(type, wrapper): no effect when that function is
\* attached to the node for the type already
addEventListener(t, node, type, wrapper) ==
  IF \E j \in 1..Len(t.listeners) :
       /\ t.listeners[j].node = node
       /\ t.listeners[j].type = type
       /\ t.listeners[j].wrapper.id = wrapper.id
  THEN t
  ELSE [t EXCEPT !.listeners = Append(@, [node |-> node, type |-> type,
                                           wrapper |-> wrapper])]

\* node.removeEventListener(type, wrapper): removes that function, if attached
removeEventListener(t, node, type, wrapper) ==
  [t EXCEPT !.listeners =
     SelectSeq(@, LAMBDA l : ~(l.node = node /\ l.type = type
                               /\ l.wrapper.id = wrapper.id))]

RECURSIVE addEach(_, _, _, _, _)
addEach(t, nodes, type, me, fn) ==
  IF nodes = << >> THEN t
  ELSE LET w == wrapHandlerMethod(t, me, fn)
       IN addEach(addEventListener(w.t, Head(nodes), type, w.wrapper),
                  Tail(nodes), type, me, fn)

RECURSIVE removeEach(_, _, _, _, _)
removeEach(t, nodes, type, me, fn) ==
  IF nodes = << >> THEN t
  ELSE LET w == wrapHandlerMethod(t, me, fn)
       IN removeEach(removeEventListener(w.t, Head(nodes), type, w.wrapper),
                     Tail(nodes), type, me, fn)

\* on(scope, handlerFn) and once(scope, handlerFn) with an event name `type` as the scope
attach(t, me, type, fn) ==
  LET at == attachmentPoints(objects[me])
  IN IF empty(objects[me]) THEN t
     ELSE IF at.exc # NoExc THEN RefThrow(t, "addEventListener", at.exc)
     ELSE addEach(t, at.nodes, type, me, fn)

on(t, me, type, handler, reg) ==
  attach(t, me, type, UserFn(handler, me, reg))

once(t, me, type, handler, reg) ==
  attach(t, me, type, OnceFn(handler, me, reg))

\* off(scope, handlerFn)
off(t, me, type, fn) ==
  LET at == attachmentPoints(objects[me])
  IN IF empty(objects[me]) THEN t
     ELSE IF at.exc # NoExc THEN RefThrow(t, "removeEventListener", at.exc)
     ELSE removeEach(t, at.nodes, type, me, fn)

matchedNever(els, target) ==
  Null

\* The loop of the wrapper over document.querySelectorAll(originalselector).
matched(els, target) ==
  IF \E i \in 1..Len(els) : els[i] = target THEN target ELSE Null

\* handlerFn(event) in the wrapper.  The function of once() applies the
\* user's handler to the event as `this`, without arguments, and calls off().
handlerFn(t, fn, event) ==
  IF fn.kind = "user"
  THEN Log(t, Ev("handler", fn.handler, event.referenceElement,
                 EventPayload(event, "argument", fn.reg), Null, NoRun))
  ELSE off(Log(t, Ev("handler", fn.handler, event.referenceElement,
                     EventPayload(event, "this", fn.reg), Null, NoRun)),
           fn.me, event.type, fn)

\* The function wrapHandlerMethod returns, called with a native event.  The
\* statement reached when no referenced element is found is the expression
\* `retrun`, an identifier that is not defined.
wrapped(t, wrapper, event) ==
  LET ref == objects[wrapper.me]
      els == querySelectorAll(document, ref.originalselector)
      referenceElement ==
        coalesce2(matched(els, event.target),
                  findParent(document, event.target, ref.originalselector))
  IN IF referenceElement = Null THEN RefThrow(t, "retrun", "ReferenceError")
     ELSE handlerFn(t, wrapper.fn, [event EXCEPT !.referenceElement = referenceElement])

\* The listeners a bubbling event of that type reaches, in the order they are
\* called: the target's first, then those of each ancestor, each node's in
\* the order of attachment.
RECURSIVE reached(_, _, _)
reached(ls, path, type) ==
  IF path = << >> THEN << >>
  ELSE SelectSeq(ls, LAMBDA l : l.node = Head(path) /\ l.type = type)
       \o reached(ls, Tail(path), type)

\* A listener that is removed before its turn comes is not called; an error
\* thrown by a listener is reported and the others are still called.
RECURSIVE callEach(_, _, _)
callEach(t, ls, event) ==
  IF ls = << >> THEN t
  ELSE LET attached == \E j \in 1..Len(t.listeners) :
                         /\ t.listeners[j].node = Head(ls).node
                         /\ t.listeners[j].type = Head(ls).type
                         /\ t.listeners[j].wrapper.id = Head(ls).wrapper.id
       IN callEach(IF attached THEN wrapped(t, Head(ls).wrapper, event) ELSE t,
                   Tail(ls), event)

\* target.dispatchEvent(event) for a bubbling event
dispatchEvent(t, target, type) ==
  callEach(t, reached(t.listeners, Path(target), type),
           [type |-> type, target |-> target, referenceElement |-> Undefined])

-----------------------------------------------------------------------------
(* Construction *)

\* cfg.properties: only P is given a property schema.
propertyFields(r) ==
  IF r = "P" THEN {"title"} ELSE {}

\* cfg.reactions
cfgReactions(r) ==
  cfgs[r].reactions

\* cfg.reflexes
cfgReflexes(r) ==
  cfgs[r].reflexes

\* The bus subscriptions the constructor of r makes, in order.
constructorSubs(r) ==
  (IF propertyFields(r) # {}
     THEN << subscription(r, "property.changed", "propertyField", Null) >>
     ELSE << >>)
  \o (IF parent(r) # Null
        THEN << [subscription(parent(r), "state.changed", "bubbleState", Null)
                   EXCEPT !.owner = r],
                [subscription(parent(r), "property.changed", "bubbleProperty", Null)
                   EXCEPT !.owner = r] >>
        ELSE << >>)
  \o << subscription(r, "parent.state.changed", "reaction", Null) >>
  \o [i \in 1..Len(cfgReflexes(r)) |->
        [subscription(cfgReflexes(r)[i].registry, "state.changed", "reflex",
                      cfgReflexes(r)[i].registry)
           EXCEPT !.owner = r]]

\* The initial state is requeued when it differs from 'default' and is managed.
initialRequeued(r, initial) ==
  initial # "default" /\ managesState(r, initial)

\* NGNX.util.requeue(fn): setTimeout(fn, 0)
requeue(queue, r, fn) ==
  Append(queue, [r |-> r, fn |-> fn])

\* The 'initialized' emissions the constructor requeues: one, unless the init
\* function declares a continuation; then one for every call of it.
RECURSIVE requeueInitialized(_, _, _)
requeueInitialized(queue, r, n) ==
  IF n = 0 THEN queue
  ELSE requeueInitialized(requeue(queue, r, "initialized"), r, n - 1)

\* A constructor that does not look at the length of the init function.
initRequeuedAtOnce(queue, r, fn) ==
  requeue(queue, r, "initialized")

\* if (this._init) { if (this._init.length === 1) ... } else ...
initRequeued(queue, r, fn) ==
  IF ~fn.null /\ fn.length = 1
    THEN requeueInitialized(queue, r, fn.calls)
    ELSE requeue(queue, r, "initialized")

\* The callbacks the constructor of r requeues, after those in `queue`.
constructorTimers(queue, r, fn, initial) ==
  LET q == initRequeued(queue, r, fn)
  IN IF initialRequeued(r, initial) THEN requeue(q, r, "initialstate") ELSE q

\* Subscriptions made right after construction, in the same turn:
\* reg.on('initialized', ...) and reg.on('state.changed', ...)
observerSubs(r) ==
  << subscription(r, "initialized", "observer", Null),
     subscription(r, "state.changed", "observer", Null) >>

\* A part of the configuration that only some configurations have.
configured(c, field) ==
  IF field \in DOMAIN c THEN c[field] ELSE ObjNull

\* The cfg objects of the three registries: those of the test suite, unless
\* the configuration names others.
layout(c) ==
  IF "layout" \in DOMAIN c THEN c.layout ELSE Separate

\* The three registries right after their constructors returned, P constructed
\* with configuration c, and the subscriptions made in the same turn.
Constructed(c) ==
  /\ cfgs = layout(c)
  /\ state = [r \in Regs |-> "default"]
  /\ previousstate = [r \in Regs |-> Null]
  /\ prestates = [r \in Regs |->
                    CASE r = "P" -> c.pre [] r = "C" -> c.cpre [] OTHER -> c.bpre]
  /\ poststates = [r \in Regs |->
                     CASE r = "P" -> c.post
                       [] r = "C" -> configured(c, "cpost")
                       [] OTHER -> configured(c, "bpost")]
  /\ initialstate = [r \in Regs |-> IF r = "P" THEN c.initial ELSE "default"]
  /\ init = [r \in Regs |-> IF r = "P" THEN c.init ELSE NoInit]
  /\ initcalls = [r \in Regs |-> init[r].calls]
  /\ timers = constructorTimers(
                 constructorTimers(
                   constructorTimers(<< >>, "P", init["P"], initialstate["P"]),
                   "C", init["C"], initialstate["C"]),
                 "B", init["B"], initialstate["B"])
  /\ reactions = [r \in Regs |-> cfgReactions(r)]
  /\ reflexes = [r \in Regs |-> cfgReflexes(r)]
  /\ subs = constructorSubs("P") \o constructorSubs("C") \o constructorSubs("B")
            \o observerSubs("P")
  /\ properties = [f \in Fields |-> IF f \in propertyFields("P") THEN Null ELSE Undefined]
  /\ runs = << >>
  /\ out = << >>
  /\ op = [kind |-> "construct", r |-> Null, x |-> Null, old |-> Null, new |-> Null,
           before |-> state, pbefore |-> previousstate]
  /\ exc = NoExc

\* NGNX.REF right after its construction, on a page whose script uses
\* `selector` for its references.
ReferenceManager(selector) ==
  /\ sel = selector
  /\ document = Nodes
  /\ objects = << >>
  /\ manager = [k \in Keys \cup {Undefined} |-> 0]
  /\ collection = << >>
  /\ deepcollapse = FALSE
  /\ listeners = << >>
  /\ registered = 0

\* The page right after the three registries were constructed; no browser
\* defines Array.prototype.contains, a script of the page may.
Page(contains) ==
  /\ arraycontains = contains
  /\ views = << >>
  /\ monitoring = FALSE
  /\ monitor = [null |-> TRUE, target |-> Null, connected |-> FALSE]
  /\ pending = << >>
  /\ emitted = 0
  /\ loader = [started |-> FALSE, sync |-> << >>, async |-> << >>, callback |-> Null,
               requests |-> {}, gets |-> << >>, loaded |-> {}, timers |-> 0,
               calls |-> << >>]

Init ==
  /\ \E c \in Configs : Constructed(c)
  /\ ReferenceManager(".none")
  /\ Page(FALSE)

-----------------------------------------------------------------------------
(* Turns of the event loop *)

Start ==
  [state |-> state, previousstate |-> previousstate, runs |-> runs,
   out |-> << >>, exc |-> NoExc]

\* A task list stays only while a continuation of it may still be called.
live(run) ==
  run.next # {} /\ run.calls < MaxProceed

\* The end of a turn on the registries, when at most `limit` task lists with
\* a live continuation are followed.
CommitWithin(limit, m, kind, r, x, old, new) ==
  /\ Len(SelectSeq(m.runs, live)) <= limit
  /\ state' = m.state
  /\ previousstate' = m.previousstate
  /\ runs' = SelectSeq(m.runs, live)
  /\ out' = m.out
  /\ exc' = m.exc
  /\ op' = [kind |-> kind, r |-> r, x |-> x, old |-> old, new |-> new,
            before |-> state, pbefore |-> previousstate]
  /\ UNCHANGED cfgs
  /\ UNCHANGED refvars
  /\ UNCHANGED pagevars

Commit(m, kind, r, x, old, new) ==
  CommitWithin(MaxRuns, m, kind, r, x, old, new)

\* registry.state = v, from outside any other call.
Assign(r, v) ==
  /\ Commit(SetState(Start, r, v, MaxDepth), "assign", r, v, Null, Null)
  /\ UNCHANGED <<prestates, poststates, initialstate, init, initcalls, timers,
                 reactions,
                 reflexes, subs, properties>>

\* A timer or callback calls the continuation that hook h of task list id got.
Proceed(id, h) ==
  /\ id \in 1..Len(runs)
  /\ h \in runs[id].next
  /\ runs[id].calls < MaxProceed
  /\ Commit(proceed(Start, id, h, MaxDepth), "proceed", runs[id].r, h, Null, Null)
  /\ UNCHANGED <<prestates, poststates, initialstate, init, initcalls, timers,
                 reactions,
                 reflexes, subs, properties>>

\* The requeued callback of the constructor: this._state = this.initialstate;
\* this._states[this._state]()
InitialState(r) ==
  /\ timers # << >>
  /\ Head(timers) = [r |-> r, fn |-> "initialstate"]
  /\ timers' = Tail(timers)
  /\ LET m == [Start EXCEPT !.state[r] = initialstate[r]]
     IN Commit(stateHandler(m, r, initialstate[r], NoPayload, NoRun, MaxDepth),
               "initial", r,
               initialstate[r], Null, Null)
  /\ UNCHANGED <<prestates, poststates, initialstate, init, initcalls, reactions,
                 reflexes, subs, properties>>

\* A requeued callback of the constructor: this.emit('initialized')
Initialized(r) ==
  /\ timers # << >>
  /\ Head(timers) = [r |-> r, fn |-> "initialized"]
  /\ timers' = Tail(timers)
  /\ Commit(emit(Start, r, "initialized", NoPayload, MaxDepth), "requeued", r,
            "initialized", Null, Null)
  /\ UNCHANGED <<prestates, poststates, initialstate, init, initcalls, reactions,
                 reflexes, subs, properties>>

\* The init function calls the continuation it was given, after the
\* constructor has returned: () => NGNX.util.requeue(() => this.emit('initialized'))
InitNext(r) ==
  /\ ~init[r].null
  /\ init[r].length = 1
  /\ initcalls[r] < MaxProceed
  /\ initcalls' = [initcalls EXCEPT ![r] = @ + 1]
  /\ timers' = requeue(timers, r, "initialized")
  /\ Commit(Start, "init.next", r, "initialized", Null, Null)
  /\ UNCHANGED <<prestates, poststates, initialstate, init, reactions, reflexes,
                 subs, properties>>

\* A field.update listener without the comparison.
fieldUpdateAlways(old, new) ==
  TRUE

\* if (change.old !== change.new)
fieldUpdateChanged(old, new) ==
  old # new

\* The property model reports field.update {field, old, new}.
FieldUpdate(f, v) ==
  /\ properties[f] # Undefined
  /\ properties' = [properties EXCEPT ![f] = v]
  /\ Commit(IF fieldUpdateChanged(properties[f], v)
              THEN emit(Start, "P", "property.changed",
                        PropertyChange(f, properties[f], v), MaxDepth)
              ELSE Start,
            "field.update", "P", f, properties[f], v)
  /\ UNCHANGED <<prestates, poststates, initialstate, init, initcalls, timers,
                 reactions,
                 reflexes, subs>>

\* The property model reports field.create {field}; the field holds v.
FieldCreate(f, v) ==
  /\ properties[f] = Undefined
  /\ properties' = [properties EXCEPT ![f] = v]
  /\ Commit(emit(Start, "P", "property.changed",
                 PropertyChange(f, Null, coalesce2(v, Null)), MaxDepth),
            "field.create", "P", f, Null, v)
  /\ UNCHANGED <<prestates, poststates, initialstate, init, initcalls, timers,
                 reactions,
                 reflexes, subs>>

\* The property model reports field.delete {field, value}.
FieldDelete(f) ==
  /\ properties[f] # Undefined
  /\ properties' = [properties EXCEPT ![f] = Undefined]
  /\ Commit(emit(Start, "P", "property.changed",
                 PropertyChange(f, properties[f], Null), MaxDepth),
            "field.delete", "P", f, properties[f], Null)
  /\ UNCHANGED <<prestates, poststates, initialstate, init, initcalls, timers,
                 reactions,
                 reflexes, subs>>

\* The state machine: assignments, continuations and the deferred initial state.
Next ==
  \/ \E r \in Regs : \E v \in AssignValues(r) : Assign(r, v)
  \/ \E id \in 1..MaxRuns : \E h \in {"*", "online", "offline", "connected"} : Proceed(id, h)
  \/ \E r \in Regs : InitialState(r)
  \/ \E r \in Regs : Initialized(r)
  \/ \E r \in Regs : InitNext(r)

Spec ==
  Init /\ [][Next]_vars

\* The property model's notifications, next to assignments of P's state.
NextProperty ==
  \/ \E f \in Fields : \E v \in Values \cup {Null} : FieldUpdate(f, v)
  \/ \E f \in Fields : \E v \in Values \cup {Null} : FieldCreate(f, v)
  \/ \E f \in Fields : FieldDelete(f)
  \/ \E v \in {"online", "offline"} : Assign("P", v)

SpecProperty ==
  Init /\ [][NextProperty]_vars

-----------------------------------------------------------------------------
(* Turns on the reference manager (NGNX.REF), its references and the        *)
(* document                                                                  *)

\* The manager's own data members, defined in its constructor as properties
\* that cannot be redefined or deleted.
ownMember(key) ==
  key \in {"collection", "deepcollapse"}

\* this.hasOwnProperty(key)
hasOwnKey(key) ==
  ownMember(key) \/ manager[key] # 0

\* get keys
keys ==
  dedupe(collection)

\* objects, after enableComplexEventCompression() or its counterpart was
\* called on the reference of every key
flagged(value) ==
  [i \in DOMAIN objects |->
     IF \E j \in 1..Len(keys) : manager[keys[j]] = i
     THEN [objects[i] EXCEPT !.deepcollapse = value]
     ELSE objects[i]]

\* The end of a reference turn.
CommitRef(t, kind, key, x) ==
  /\ listeners' = t.listeners
  /\ out' = t.out
  /\ exc' = t.exc
  /\ op' = [kind |-> kind, r |-> key, x |-> x,
            old |-> Null, new |-> Null,
            before |-> state, pbefore |-> previousstate]
  /\ UNCHANGED regvars
  /\ UNCHANGED sel
  /\ UNCHANGED pagevars

\* NGNX.REF.create(key, selector)
Create(key) ==
  /\ Len(objects) < MaxRefs
  /\ IF ownMember(key)
     THEN /\ CommitRef(RefThrow(StartRef, "defineProperty", "TypeError"),
                       "create", key, sel)
          /\ UNCHANGED <<objects, manager, collection>>
     ELSE /\ objects' = Append(objects, HTMLReferenceElement(sel))
          /\ manager' = [manager EXCEPT ![key] = Len(objects) + 1]
          /\ collection' = Append(collection, key)
          /\ CommitRef(Log(StartRef, Ev("emit", "REF", "created", NamePayload(key),
                                        Null, NoRun)),
                       "create", key, sel)
  /\ UNCHANGED <<document, deepcollapse, registered>>

\* NGNX.REF.remove(key)
Remove(key) ==
  /\ IF ~hasOwnKey(key)
     THEN /\ CommitRef(StartRef, "remove", key, Null)
          /\ UNCHANGED <<manager, collection>>
     ELSE IF ownMember(key)
     THEN /\ CommitRef(RefThrow(StartRef, "delete", "TypeError"), "remove", key, Null)
          /\ UNCHANGED <<manager, collection>>
     ELSE /\ manager' = [manager EXCEPT ![key] = 0]
          /\ collection' = SelectSeq(collection, LAMBDA k : k # key)
          /\ CommitRef(Log(StartRef, Ev("emit", "REF", "deleted", NamePayload(key),
                                        Null, NoRun)),
                       "remove", key, Null)
  /\ UNCHANGED <<document, objects, deepcollapse, registered>>

\* NGNX.REF.enableComplexEventCompression()
EnableComplexEventCompression ==
  /\ deepcollapse' = TRUE
  /\ objects' = flagged(TRUE)
  /\ CommitRef(StartRef, "enable", Null, Null)
  /\ UNCHANGED <<document, manager, collection, registered>>

\* NGNX.REF.disableComplexEventCompression()
DisableComplexEventCompression ==
  /\ deepcollapse' = FALSE
  /\ objects' = flagged(FALSE)
  /\ CommitRef(StartRef, "disable", Null, Null)
  /\ UNCHANGED <<document, manager, collection, registered>>

\* NGNX.REF[key].on('click', handler)
On(key, handler) ==
  /\ manager[key] # 0
  /\ registered < MaxOn
  /\ registered' = registered + 1
  /\ CommitRef(on(StartRef, manager[key], "click", handler, registered + 1),
               "on", key, handler)
  /\ UNCHANGED <<document, objects, manager, collection, deepcollapse>>

\* NGNX.REF[key].once('click', handler)
Once(key, handler) ==
  /\ manager[key] # 0
  /\ registered < MaxOn
  /\ registered' = registered + 1
  /\ CommitRef(once(StartRef, manager[key], "click", handler, registered + 1),
               "once", key, handler)
  /\ UNCHANGED <<document, objects, manager, collection, deepcollapse>>

\* NGNX.REF[key].off('click', handler)
Off(key, handler) ==
  /\ manager[key] # 0
  /\ CommitRef(off(StartRef, manager[key], "click", UserFn(handler, manager[key], 0)),
               "off", key, handler)
  /\ UNCHANGED <<document, objects, manager, collection, deepcollapse, registered>>

\* The nodes the user clicks: the first element the page's selector matches,
\* s3, which is inside the element a3, and p1, which no selector matches.
Targets ==
  {"s3", "p1"} \cup {DocumentOrder[i] : i \in {j \in 1..Len(DocumentOrder) :
                                                /\ DocumentOrder[j] \in matches(sel)
                                                /\ \A k \in 1..(j - 1) :
                                                     DocumentOrder[k] \notin matches(sel)}}

\* The user clicks a node of the document.
Click(target) ==
  /\ target \in document
  /\ CommitRef(dispatchEvent(StartRef, target, "click"), "click", Null, target)
  /\ UNCHANGED <<document, objects, manager, collection, deepcollapse, registered>>

\* The page of one selector: references are created and removed, listeners
\* attached, nodes clicked.
NextRef ==
  \/ \E key \in Keys : Create(key)
  \/ \E key \in Keys : Remove(key)
  \/ EnableComplexEventCompression
  \/ DisableComplexEventCompression
  \/ \E key \in Keys : \E handler \in Handlers : On(key, handler)
  \/ \E key \in Keys : \E handler \in Handlers : Once(key, handler)
  \/ \E key \in Keys : \E handler \in Handlers : Off(key, handler)
  \/ \E target \in Targets : Click(target)

\* The registries are constructed without hooks; the page uses any selector.
InitRef ==
  /\ Constructed([pre |-> ObjNull, post |-> ObjNull, initial |-> "default",
                  init |-> NoInit, cpre |-> ObjNull, bpre |-> ObjNull])
  /\ \E selector \in Selectors : ReferenceManager(selector)
  /\ Page(FALSE)

SpecRef ==
  InitRef /\ [][NextRef]_vars

-----------------------------------------------------------------------------
(* Reactions and reflexes changed after construction.  A turn is one call   *)
(* of createReaction, removeReaction, clearReactions, createReflex,         *)
(* removeReflex or clearReflexes, or one assignment of P's state.  In `op`  *)
(* x is the source state, new the target state and old the peer registry.   *)

\* The parent or peer states a mapping is removed for, the one a mapping is
\* made for, and the states it leads to.
Sources ==
  {"online", "offline"}

Created ==
  {"online"}

Reacts ==
  {"connected", "disconnected"}

\* The registries whose methods are called, and the peer they name.
Linked ==
  {"C", "B"}

Peers ==
  {"P"}

\* object[key] = value
assigned(map, key, value) ==
  [k \in DOMAIN map \cup {key} |-> IF k = key THEN value ELSE map[k]]

\* delete object[key]
deleted(map, key) ==
  [k \in DOMAIN map \ {key} |-> map[k]]

\* The reflex list of r after the reactions object of `registry`, which the
\* record shares, was changed in place.
inPlace(r, registry, map) ==
  [i \in DOMAIN reflexes[r] |->
     IF reflexes[r][i].registry = registry
       THEN [reflexes[r][i] EXCEPT !.reactions = map]
       ELSE reflexes[r][i]]

\* array.splice(index, count, ...items): the elements removed, which is what
\* the call returns.
splice(list, index, count) ==
  SubSeq(list, index + 1, IF index + count > Len(list) THEN Len(list) ELSE index + count)

\* managesReflex: Object.keys(reactions).contains(state).  Object.keys throws
\* for undefined, and an array has `contains` only if the page defines it.
managesReflex(r, registry, s) ==
  LET found == getRegistryReflexReactions(r, registry)
  IN IF found.null \/ ~arraycontains
       THEN [exc |-> "TypeError", value |-> FALSE]
       ELSE [exc |-> NoExc, value |-> s \in DOMAIN found.map]

\* getRegistryReflexIndex: calls filter() on what getRegistryReflex returned,
\* which is the reflex record or {} and never an array.
getRegistryReflexIndex(r, registry) ==
  [exc |-> "TypeError", value |-> -1]

\* this.reflexHandler(registry): a new function on every call.  `made` tells
\* the functions apart: 0 is the one the constructor subscribed.
reflexHandler(r, registry, made) ==
  [owner |-> r, fn |-> "reflex", registry |-> registry, made |-> made]

\* registry.off(name, handler): the subscriptions of the topic without those
\* that hold this very function.
unsubscribe(list, registry, name, handler) ==
  SelectSeq(list, LAMBDA s :
    ~(/\ s.topic = topicOf(registry, name)
      /\ s.owner = handler.owner /\ s.fn = handler.fn
      /\ s.registry = handler.registry
      /\ handler.made = 0))

\* this._reflexes.forEach(reflex => reflex.registry.off('state.changed',
\*   this.reflexHandler(reflex.registry)))
RECURSIVE offEach(_, _, _, _)
offEach(list, r, records, made) ==
  IF records = << >> THEN list
  ELSE offEach(unsubscribe(list, Head(records).registry, "state.changed",
                   reflexHandler(r, Head(records).registry, made)),
               r, Tail(records), made + 1)

\* The end of a turn that calls one of these methods: no state is assigned.
CommitLink(kind, r, x, old, new, e) ==
  /\ out' = << >>
  /\ exc' = e
  /\ op' = [kind |-> kind, r |-> r, x |-> x, old |-> old, new |-> new,
            before |-> state, pbefore |-> previousstate]
  /\ UNCHANGED <<cfgs, state, previousstate, prestates, poststates, initialstate,
                 init, initcalls, timers, properties, runs>>
  /\ UNCHANGED refvars
  /\ UNCHANGED pagevars

\* createReaction(source, target)
CreateReaction(r, source, target) ==
  /\ reactions' =
       IF parent(r) = Null \/ reactions[r].null
         THEN reactions
         ELSE [reactions EXCEPT ![r] = Obj(assigned(reactions[r].map, source, target))]
  /\ CommitLink("createReaction", r, source, Null, target,
                IF parent(r) # Null /\ reactions[r].null THEN "TypeError" ELSE NoExc)
  /\ UNCHANGED <<reflexes, subs>>

\* removeReaction(source)
RemoveReaction(r, source) ==
  /\ reactions' =
       IF hasOwnProperty(Reactions(r), source)
         THEN [reactions EXCEPT ![r] = Obj(deleted(reactions[r].map, source))]
         ELSE reactions
  /\ CommitLink("removeReaction", r, source, Null, Null, NoExc)
  /\ UNCHANGED <<reflexes, subs>>

\* clearReactions()
ClearReactions(r) ==
  /\ reactions' = [reactions EXCEPT ![r] = ObjNull]
  /\ CommitLink("clearReactions", r, Null, Null, Null, NoExc)
  /\ UNCHANGED <<reflexes, subs>>

\* createReflex(registry, source, target)
CreateReflex(r, registry, source, target) ==
  LET found == getRegistryReflexReactions(r, registry)
      index == getRegistryReflexIndex(r, registry)
      reflex == [registry |-> registry,
                 reactions |-> assigned(found.map, source, target)]
  IN IF found.null
     THEN /\ CommitLink("createReflex", r, source, registry, target, "TypeError")
          /\ UNCHANGED <<reactions, reflexes, subs>>
     ELSE IF index.exc # NoExc
     THEN /\ reflexes' = [reflexes EXCEPT ![r] = inPlace(r, registry, reflex.reactions)]
          /\ CommitLink("createReflex", r, source, registry, target, index.exc)
          /\ UNCHANGED <<reactions, subs>>
     ELSE IF index.value >= 0
     THEN /\ reflexes' = [reflexes EXCEPT ![r] =
                            splice(inPlace(r, registry, reflex.reactions), index.value, 1)]
          /\ CommitLink("createReflex", r, source, registry, target, NoExc)
          /\ UNCHANGED <<reactions, subs>>
     ELSE /\ reflexes' = [reflexes EXCEPT ![r] =
                            Append(inPlace(r, registry, reflex.reactions), reflex)]
          /\ subs' = Append(subs, [subscription(registry, "state.changed", "reflex",
                                                registry) EXCEPT !.owner = r])
          /\ CommitLink("createReflex", r, source, registry, target, NoExc)
          /\ UNCHANGED reactions

\* removeReflex(registry, state)
RemoveReflex(r, registry, s) ==
  LET managed == managesReflex(r, registry, s)
      found == getRegistryReflexReactions(r, registry)
      index == getRegistryReflexIndex(r, registry)
      removed == inPlace(r, registry, deleted(found.map, s))
  IN IF managed.exc # NoExc
     THEN /\ CommitLink("removeReflex", r, s, registry, Null, managed.exc)
          /\ UNCHANGED <<reactions, reflexes, subs>>
     ELSE IF ~managed.value
     THEN /\ CommitLink("removeReflex", r, s, registry, Null, NoExc)
          /\ UNCHANGED <<reactions, reflexes, subs>>
     ELSE IF index.exc # NoExc
     THEN /\ reflexes' = [reflexes EXCEPT ![r] = removed]
          /\ CommitLink("removeReflex", r, s, registry, Null, index.exc)
          /\ UNCHANGED <<reactions, subs>>
     ELSE \* if (Object.keys(reactions).length >= 0), which always holds
          /\ reflexes' = [reflexes EXCEPT ![r] = splice(removed, index.value, 1)]
          /\ CommitLink("removeReflex", r, s, registry, Null, NoExc)
          /\ UNCHANGED <<reactions, subs>>

\* clearReflexes()
ClearReflexes(r) ==
  /\ subs' = offEach(subs, r, reflexes[r], 1)
  /\ reflexes' = [reflexes EXCEPT ![r] = << >>]
  /\ CommitLink("clearReflexes", r, Null, Null, Null, NoExc)
  /\ UNCHANGED reactions

\* The methods are called between assignments of the parent's and peer's state.
NextLinks ==
  \/ \E v \in Sources : Assign("P", v)
  \/ \E r \in Linked : \E s \in Created : \E t \in Reacts : CreateReaction(r, s, t)
  \/ \E r \in Linked : \E s \in Sources : RemoveReaction(r, s)
  \/ \E r \in Linked : ClearReactions(r)
  \/ \E r \in Linked : \E p \in Peers : \E s \in Created : \E t \in Reacts :
       CreateReflex(r, p, s, t)
  \/ \E r \in Linked : \E p \in Peers : \E s \in Sources : RemoveReflex(r, p, s)
  \/ \E r \in Linked : ClearReflexes(r)

\* The registries are constructed without hooks, on a page that may or may not
\* define Array.prototype.contains.
InitLinks ==
  /\ Constructed([pre |-> ObjNull, post |-> ObjNull, initial |-> "default",
                  init |-> NoInit, cpre |-> ObjNull, bpre |-> ObjNull])
  /\ ReferenceManager(".none")
  /\ \E contains \in BOOLEAN : Page(contains)

SpecLinks ==
  InitLinks /\ [][NextLinks]_vars

-----------------------------------------------------------------------------
(* Registries and components constructed later on the page.  A turn is one  *)
(* `new NGNX.VIEW.Registry(cfg)` or `new NGNX.VIEW.Component(cfg)`, one     *)
(* on() or emit() of such a view, or the removal of P's element.            *)

\* A configuration value with its typeof.
JsValue(type, value) ==
  [type |-> type, value |-> value]

\* The argument of a constructor: `given` is "undefined" when there is none,
\* "string" for a value that is no object, else "object"; a property that
\* the object does not have is of type "undefined", and parent is Null.
Cfg(class, given, selector, node, ns, par) ==
  [class |-> class, given |-> given, selector |-> selector, element |-> node,
   namespace |-> ns, parent |-> par]

\* P is bound to the main element.
selectorOf(r) ==
  IF r = "P" THEN "main" ELSE Null

\* The configurations views are constructed with.
RegistryConfigs ==
  {Cfg("Registry", "undefined", JsValue("undefined", Null), Null, Undefined, Null),
   Cfg("Registry", "string", JsValue("undefined", Null), Null, Undefined, Null)}
  \cup {Cfg("Registry", "object", selector, Null, Undefined, par) :
          selector \in {JsValue("undefined", Null), JsValue("number", "5"),
                        JsValue("string", ".none"), JsValue("string", ".btn")},
          par \in {Null, "P"}}

\* Components are made of the two buttons in P's element, as children of P.
ComponentConfigs ==
  {Cfg("Component", "object", JsValue("undefined", Null), Undefined, Undefined, Null)}
  \cup {Cfg("Component", "object", JsValue("undefined", Null), node, ns, "P") :
          node \in {"b1", "b2"}, ns \in {Undefined, "x."}}

ViewConfigs ==
  RegistryConfigs \cup ComponentConfigs

\* The names views subscribe to and emit.
Names ==
  {"refresh"}

\* The nodes at and below n.
Subtree(n) ==
  {d \in Nodes : d = n \/ n \in Ancestors(d)}

\* NGN.DOM.selectorOfElement(element, parent): a selector of this one element.
selectorOfElement(node) ==
  "#" \o node

\* The elements the selector `prefix selector` matches, `selector` alone when
\* prefix is Null; and the elements a selector of one element matches.
select(doc, prefix, selector) ==
  SelectSeq(DocumentOrder, LAMBDA n :
    /\ n \in doc
    /\ n \in matches(selector) \/ selector = selectorOfElement(n)
    /\ prefix # Null => \E a \in Ancestors(n) : a \in doc /\ a \in matches(prefix))

\* A lookup that always finds an element.
isNullNever(found) ==
  FALSE

\* document.querySelector(selector) === null
isNull(found) ==
  found = << >>

\* NGN.DATA.util.GUID(): an identifier no earlier call returned.
GUID(n) ==
  "g" \o ToString(n)

\* The failed and the successful end of a constructor.
Failed(e) ==
  [exc |-> e, selector |-> Null, namespace |-> Undefined, id |-> Undefined]

Built(selector, ns, id) ==
  [exc |-> NoExc, selector |-> selector, namespace |-> ns, id |-> id]

\* cfg.namespace after the parent's scope was prepended
inherited(cfg) ==
  IF cfg.parent = Null THEN cfg.namespace
  ELSE IF cfg.namespace # Undefined
    THEN IF scope(cfg.parent) # Null
           THEN scope(cfg.parent) \o cfg.namespace
           ELSE cfg.namespace
    ELSE IF Truthy(scope(cfg.parent)) THEN scope(cfg.parent) ELSE Undefined

\* The constructor of the registry up to super(cfg): the checks of the
\* configuration, the selector below the parent's, the inherited namespace.
NgnViewRegistry(doc, cfg, id) ==
  IF cfg.given = "string" THEN Failed("Error")
  ELSE IF cfg.given = "undefined" \/ cfg.selector.type = "undefined" THEN Failed("Error")
  ELSE IF cfg.selector.type # "string" THEN Failed("Error")
  ELSE IF cfg.parent # Null /\ isNull(select(doc, Null, selectorOf(cfg.parent)))
    THEN Failed("Error")
  ELSE IF isNull(select(doc, IF cfg.parent # Null THEN selectorOf(cfg.parent) ELSE Null,
                        cfg.selector.value))
    THEN Failed("Error")
  ELSE Built(IF cfg.parent # Null
               THEN selectorOf(cfg.parent) \o " " \o cfg.selector.value
               ELSE cfg.selector.value,
             inherited(cfg), id)

\* The constructor of the component: the element is required, the selector
\* is made from it, and cfg.id (not cfg.namespace) receives the GUID.
Component(doc, cfg, guid) ==
  IF cfg.given # "object" \/ cfg.element = Undefined THEN Failed("Error")
  ELSE NgnViewRegistry(doc,
         [cfg EXCEPT !.selector = JsValue("string", selectorOfElement(cfg.element))],
         (IF Len(coalesce2(cfg.namespace, "")) > 0 THEN "." ELSE "") \o guid \o ".")

\* Driver: scope is cfg.namespace || null
Driver(name, cfg, built) ==
  [name |-> name, class |-> cfg.class, selector |-> built.selector,
   scope |-> IF Truthy(built.namespace) THEN built.namespace ELSE Null,
   parent |-> cfg.parent, id |-> built.id]

\* view.on(name, handler) and the topic view.emit(name) publishes on
viewTopic(view, name) ==
  view.scope \o name

viewSubscription(view, registry, name, fn) ==
  [topic |-> IF registry = Null THEN viewTopic(view, name) ELSE topicOf(registry, name),
   owner |-> view.name, fn |-> fn, registry |-> Null]

\* The subscriptions the registry's constructor makes after super(cfg).
viewSubs(view) ==
  (IF view.parent # Null
     THEN << viewSubscription(view, view.parent, "state.changed", "bubbleState"),
             viewSubscription(view, view.parent, "property.changed", "bubbleProperty") >>
     ELSE << >>)
  \o << viewSubscription(view, Null, "parent.state.changed", "reaction") >>

\* The end of a turn of a view.
CommitView(kind, x, log, e) ==
  /\ out' = log
  /\ exc' = e
  /\ op' = [kind |-> kind, r |-> Null, x |-> x, old |-> Null, new |-> Null,
            before |-> state, pbefore |-> previousstate]
  /\ UNCHANGED <<cfgs, state, previousstate, prestates, poststates, initialstate,
                 init, initcalls, reactions, reflexes, properties, runs>>
  /\ UNCHANGED <<sel, deepcollapse, listeners, registered, arraycontains, loader>>
  /\ UNCHANGED monitorvars

\* new NGNX.VIEW.Registry(cfg), new NGNX.VIEW.Component(cfg)
Construct(cfg) ==
  /\ Len(views) < MaxViews
  /\ \E built \in {IF cfg.class = "Component"
                     THEN Component(document, cfg, GUID(Len(views) + 1))
                     ELSE NgnViewRegistry(document, cfg, Undefined)} :
       IF built.exc # NoExc
        THEN /\ CommitView("construct", cfg, << >>, built.exc)
             /\ UNCHANGED <<views, subs, timers, objects, manager, collection>>
        ELSE \E view \in {Driver("V" \o ToString(Len(views) + 1), cfg, built)} :
             /\ views' = Append(views, view)
             /\ objects' = Append(objects, HTMLReferenceElement(view.selector))
             /\ manager' = [manager EXCEPT ![Undefined] = Len(objects) + 1]
             /\ collection' = Append(collection, Undefined)
             /\ subs' = subs \o viewSubs(view)
             /\ timers' = requeue(timers, view.name, "initialized")
             /\ CommitView("construct", cfg,
                           << Ev("emit", "REF", "created", NamePayload(Undefined),
                                 Null, NoRun) >>,
                           NoExc)
  /\ UNCHANGED document

\* views[i].on(name, handler)
OnView(i, name) ==
  /\ i \in DOMAIN views
  /\ ~\E j \in DOMAIN subs : subs[j].owner = views[i].name /\ subs[j].fn = "observer"
  /\ subs' = Append(subs, viewSubscription(views[i], Null, name, "observer"))
  /\ CommitView("on", views[i].name, << >>, NoExc)
  /\ UNCHANGED <<views, timers, objects, manager, collection, document>>

\* views[i].emit(name): the subscribers of the scoped topic are called.
EmitView(i, name) ==
  /\ i \in DOMAIN views
  /\ LET called == SelectSeq(subs, LAMBDA s : s.topic = viewTopic(views[i], name))
     IN CommitView("emit", views[i].name,
                   [j \in DOMAIN called |->
                      Ev("observe", called[j].owner, called[j].topic, NoPayload,
                         Null, NoRun)],
                   NoExc)
  /\ UNCHANGED <<views, subs, timers, objects, manager, collection, document>>

\* The element of P leaves the document, with all that is in it.
Detach(n) ==
  /\ n \in document
  /\ document' = document \ Subtree(n)
  /\ CommitView("detach", n, << >>, NoExc)
  /\ UNCHANGED <<views, subs, timers, objects, manager, collection>>

NextViews ==
  \/ \E cfg \in ViewConfigs : Construct(cfg)
  \/ \E i \in 1..MaxViews : \E name \in Names : OnView(i, name)
  \/ \E i \in 1..MaxViews : \E name \in Names : EmitView(i, name)
  \/ Detach("main")

\* The three registries are constructed without hooks.
InitViews ==
  /\ Constructed([pre |-> ObjNull, post |-> ObjNull, initial |-> "default",
                  init |-> NoInit, cpre |-> ObjNull, bpre |-> ObjNull])
  /\ ReferenceManager(".none")
  /\ Page(FALSE)

SpecViews ==
  InitViews /\ [][NextViews]_vars

-----------------------------------------------------------------------------
(* The element monitor of P.  A turn is a call of enableElementMonitor or   *)
(* disableElementMonitor, a script that changes the children of the body    *)
(* (the observer's callback runs at its end), or the setTimeout callback    *)
(* the observer made for one mutation.                                      *)

\* this._element: what the selector matched when the registry was constructed.
boundElement(r) ==
  Head(select(Nodes, Null, selectorOf(r)))

\* A MutationRecord of type childList.
MutationRecord(addedNodes, removedNodes) ==
  [type |-> "childList", addedNodes |-> addedNodes, removedNodes |-> removedNodes]

\* this._monitor = null
NoMonitor ==
  [null |-> TRUE, target |-> Null, connected |-> FALSE]

\* new MutationObserver(...), observing target once observe() has returned
MutationObserver(target) ==
  [null |-> FALSE, target |-> target, connected |-> target # Null]

\* node.parentNode, null for a node that is not in the document
attachedTo(doc, n) ==
  IF n \in doc THEN parentNode(n) ELSE Null

\* The children of the body that scripts remove, replace and put back.
Children ==
  {"main", "nav"}

\* for (node = 0; node < addedNodes.length; node++) removedNodes[node] === el
removedNode(mutation, el) ==
  \E node \in 1..Len(mutation.addedNodes) :
    node <= Len(mutation.removedNodes) /\ mutation.removedNodes[node] = el

\* The observer's callback: a timeout for every childList mutation it is told.
observed(target, mutation) ==
  IF ~monitor.null /\ monitor.connected /\ monitor.target = target
    THEN Append(pending, mutation)
    ELSE pending

\* The end of a turn of the monitor or of a script that changes the document.
CommitMonitor(m, kind, r, x) ==
  /\ out' = m.out
  /\ exc' = m.exc
  /\ op' = [kind |-> kind, r |-> r, x |-> x, old |-> Null, new |-> Null,
            before |-> state, pbefore |-> previousstate]
  /\ UNCHANGED regvars
  /\ UNCHANGED <<sel, objects, manager, collection, deepcollapse, listeners,
                 registered, arraycontains, views, loader>>

\* enableElementMonitor()
EnableElementMonitor(r) ==
  /\ monitor.null
  /\ LET target == attachedTo(document, boundElement(r))
     IN IF target = Null
        THEN /\ monitor' = MutationObserver(Null)
             /\ CommitMonitor(Throw(Start, r, "TypeError"), "enable", r, Null)
             /\ UNCHANGED <<monitoring, emitted>>
        ELSE /\ monitor' = MutationObserver(target)
             /\ monitoring' = TRUE
             /\ emitted' = 0
             /\ CommitMonitor(emit(Start, r, "monitoring.enabled", NoPayload, MaxDepth),
                              "enable", r, Null)
  /\ UNCHANGED <<document, pending>>

\* disableElementMonitor()
DisableElementMonitor(r) ==
  /\ monitoring' = FALSE
  /\ monitor' = NoMonitor
  /\ CommitMonitor(IF monitor.null THEN Start
                   ELSE emit(Start, r, "monitoring.disabled", NoPayload, MaxDepth),
                   "disable", r, Null)
  /\ UNCHANGED <<document, pending, emitted>>

\* The callback of setTimeout(..., 0) for the oldest mutation.
Timeout(r) ==
  /\ pending # << >>
  /\ pending' = Tail(pending)
  /\ IF removedNode(Head(pending), boundElement(r))
     THEN /\ emitted' = emitted + 1
          /\ monitoring' = FALSE
          /\ monitor' = NoMonitor
          /\ LET m == emit(Start, r, "element.removed", NamePayload(boundElement(r)),
                           MaxDepth)
             IN CommitMonitor(IF monitor.null THEN m
                              ELSE emit(m, r, "monitoring.disabled", NoPayload, MaxDepth),
                              "timeout", r, Null)
     ELSE /\ CommitMonitor(Start, "timeout", r, Null)
          /\ UNCHANGED <<monitoring, monitor, emitted>>
  /\ UNCHANGED document

\* A script calls body.removeChild(n).
RemoveChild(n) ==
  /\ n \in document
  /\ Len(pending) < MaxPending
  /\ document' = document \ Subtree(n)
  /\ pending' = observed(parentNode(n), MutationRecord(<< >>, << n >>))
  /\ CommitMonitor(Start, "removeChild", Null, n)
  /\ UNCHANGED <<monitoring, monitor, emitted>>

\* A script calls body.replaceChild(other, n) with a node made for it.
ReplaceChild(n) ==
  /\ n \in document
  /\ Len(pending) < MaxPending
  /\ document' = document \ Subtree(n)
  /\ pending' = observed(parentNode(n), MutationRecord(<< "other" >>, << n >>))
  /\ CommitMonitor(Start, "replaceChild", Null, n)
  /\ UNCHANGED <<monitoring, monitor, emitted>>

\* A script puts n back: body.appendChild(n).
AppendChild(n) ==
  /\ n \notin document
  /\ Len(pending) < MaxPending
  /\ document' = document \cup Subtree(n)
  /\ pending' = observed(parentNode(n), MutationRecord(<< n >>, << >>))
  /\ CommitMonitor(Start, "appendChild", Null, n)
  /\ UNCHANGED <<monitoring, monitor, emitted>>

NextMonitor ==
  \/ EnableElementMonitor("P")
  \/ DisableElementMonitor("P")
  \/ Timeout("P")
  \/ \E n \in Children : RemoveChild(n)
  \/ \E n \in Children : ReplaceChild(n)
  \/ \E n \in Children : AppendChild(n)

\* The three registries are constructed without hooks; monitoring is off,
\* as the constructor leaves it.
InitMonitor ==
  /\ Constructed([pre |-> ObjNull, post |-> ObjNull, initial |-> "default",
                  init |-> NoInit, cpre |-> ObjNull, bpre |-> ObjNull])
  /\ ReferenceManager(".none")
  /\ Page(FALSE)

SpecMonitor ==
  InitMonitor /\ [][NextMonitor]_vars

-----------------------------------------------------------------------------
(* Hooks with other return values, and state handlers that throw.  P has an  *)
(* 'online' pre-state hook that returns one of several values, or a global   *)
(* hook that declares the continuation; the handler of P's state 'broken'    *)
(* and that of C's state 'faulty' throw.                                     *)

\* What a pre-state hook without continuation parameter returns: nothing,
\* null, 0, '', true or false.
HookReturns ==
  {Undefined, Null, "0", "", "true", "false"}

Returning(v) ==
  [arity |-> 2, ret |-> v]

\* cfg.postStates of C and B with a global and a 'connected' hook.
DependentPost ==
  Obj([h \in {"*", "connected"} |-> "function"])

HookConfigs ==
  {[pre |-> Obj([h \in {"online"} |-> Returning(v)]), post |-> BothPost,
    initial |-> "default", init |-> NoInit, cpre |-> ObjNull, bpre |-> ObjNull] :
     v \in HookReturns}
  \cup {[pre |-> Obj([h \in {"*"} |-> Async]), post |-> BothPost,
         initial |-> "default", init |-> NoInit, cpre |-> ObjNull, bpre |-> ObjNull],
        [pre |-> ObjNull, post |-> BothPost,
         initial |-> "default", init |-> NoInit, cpre |-> ObjNull, bpre |-> ObjNull],
        [pre |-> ObjNull, post |-> BothPost,
         initial |-> "default", init |-> NoInit, cpre |-> ObjNull, bpre |-> ObjNull,
         cpost |-> DependentPost, bpost |-> DependentPost]}

\* P is assigned states, continuations are called, and C gets a reaction that
\* leads to the state whose handler throws.
NextHooks ==
  \/ \E v \in {"online", "offline", "broken"} : Assign("P", v)
  \/ \E id \in 1..MaxRuns : Proceed(id, "*")
  \/ CreateReaction("C", "online", "faulty")

InitHooks ==
  /\ \E c \in HookConfigs : Constructed(c)
  /\ ReferenceManager(".none")
  /\ Page(FALSE)

SpecHooks ==
  InitHooks /\ [][NextHooks]_vars

-----------------------------------------------------------------------------
(* NGNX.Loader.  A turn is the call NGNX.Loader(cfg, callback), the end of   *)
(* one GET that NGN.HTTP.import started, or the setTimeout(..., 5) callback  *)
(* of the loader.  In `loader`, sync and async are the arrays this.sync      *)
(* (which loadSync shifts) and this.async, requests the files whose GET is   *)
(* under way, gets the GETs in the order they were started, each with the    *)
(* files that had been loaded by then, and calls the runs of the callback.   *)

\* The files a page loads one by one, and those it loads in parallel.
SyncFiles ==
  { << >>, << "a.js" >>, << "a.js", "b.js" >> }

AsyncFiles ==
  { << >>, << "c.js" >>, << "c.js", "d.js" >> }

\* The second argument: a function, or the name of an event.
Callbacks ==
  {"function", "event"}

\* The members of an array.
Members(files) ==
  {files[i] : i \in DOMAIN files}

\* NGN.HTTP.import(files, callback) starts one GET for every file, all at
\* once; its callback runs when every one of them has ended.
import(l, files, kind) ==
  [l EXCEPT !.requests = @ \cup Members(files),
            !.gets = @ \o [i \in DOMAIN files |->
                             [file |-> files[i], kind |-> kind, after |-> l.loaded]]]

\* var loadSync = function (files) { NGN.HTTP.import(files.shift(), ...) }
loadSync(l) ==
  import([l EXCEPT !.sync = Tail(@)], << Head(l.sync) >>, "sync")

\* callback(files) or NGN.BUS.emit(callback, files)
finish(l, files) ==
  [l EXCEPT !.calls = Append(@, [how |-> IF l.callback = "function" THEN "callback"
                                         ELSE "emit",
                                 files |-> files, loaded |-> l.loaded])]

\* The end of a turn of the loader.
CommitLoader(l, kind, x) ==
  /\ loader' = l
  /\ out' = [i \in DOMAIN l.calls \ DOMAIN loader.calls |->
               Ev(l.calls[i].how, "Loader", kind, NoPayload, Null, NoRun)]
  /\ exc' = NoExc
  /\ op' = [kind |-> kind, r |-> Null, x |-> x, old |-> Null, new |-> Null,
            before |-> state, pbefore |-> previousstate]
  /\ UNCHANGED regvars
  /\ UNCHANGED refvars
  /\ UNCHANGED <<arraycontains, views>>
  /\ UNCHANGED monitorvars

\* NGNX.Loader(cfg, callback)
Loader(cfg, callback) ==
  /\ ~loader.started
  /\ LET l0 == [loader EXCEPT !.started = TRUE, !.sync = cfg.sync,
                              !.async = cfg.async, !.callback = callback]
         l1 == IF Len(l0.sync) > 0 THEN loadSync(l0) ELSE l0
         l2 == IF Len(l1.async) > 0 THEN import(l1, l1.async, "async")
               ELSE finish(l1, l1.sync \o l1.async)
     IN CommitLoader(l2, "Loader", cfg)

\* The GET of one file ends, and the callback given to import runs: loadSync
\* goes on with the next file, or the loader sets its timeout.
Imported(file) ==
  /\ file \in loader.requests
  /\ LET l0 == [loader EXCEPT !.requests = @ \ {file}, !.loaded = @ \cup {file}]
         l1 == IF file \in Members(l0.async)
                 THEN IF Members(l0.async) \subseteq l0.loaded
                        THEN [l0 EXCEPT !.timers = @ + 1]
                        ELSE l0
                 ELSE IF Len(l0.sync) > 0 THEN loadSync(l0) ELSE l0
     IN CommitLoader(l1, "imported", file)

\* setTimeout(function () { ... }, 5): the callback gets this.sync and the
\* imported files, the event this.sync and this.async.
LoaderTimeout ==
  /\ loader.timers > 0
  /\ CommitLoader(finish([loader EXCEPT !.timers = @ - 1], loader.sync \o loader.async),
                  "loaded", Null)

NextLoader ==
  \/ \E files \in SyncFiles : \E parallel \in AsyncFiles : \E callback \in Callbacks :
       Loader([sync |-> files, async |-> parallel], callback)
  \/ \E file \in {"a.js", "b.js", "c.js", "d.js"} : Imported(file)
  \/ LoaderTimeout

\* The three registries are constructed without hooks; the loader was not
\* called yet.
InitLoader ==
  /\ Constructed([pre |-> ObjNull, post |-> ObjNull, initial |-> "default",
                  init |-> NoInit, cpre |-> ObjNull, bpre |-> ObjNull])
  /\ ReferenceManager(".none")
  /\ Page(FALSE)

SpecLoader ==
  InitLoader /\ [][NextLoader]_vars

-----------------------------------------------------------------------------
(* Overlapping assignments.  P has a global pre-state hook that declares    *)
(* the continuation, so that every assignment of P waits for a timer, and   *)
(* further assignments are made while earlier ones wait.  In `op`, old is   *)
(* the number of the task list whose continuation was called.               *)

\* cfg.preStates of P: the global hook alone, or with a hook for 'online'
\* that approves and one for 'offline' that returns false.
OverlapConfigs ==
  {[pre |-> Obj([h \in {"*"} |-> Async]), post |-> ObjNull,
    initial |-> "default", init |-> NoInit, cpre |-> ObjNull, bpre |-> ObjNull],
   [pre |-> Obj([h \in {"*", "online", "offline"} |->
                   CASE h = "*" -> Async [] h = "online" -> Sync [] OTHER -> Veto]),
    post |-> BothPost,
    initial |-> "default", init |-> NoInit, cpre |-> ObjNull, bpre |-> ObjNull]}

\* registry.state = v, while the hooks of earlier assignments may be pending.
AssignWhilePending(r, v) ==
  /\ CommitWithin(MaxOverlap, SetState(Start, r, v, MaxDepth), "assign", r, v, Null, Null)
  /\ UNCHANGED <<prestates, poststates, initialstate, init, initcalls, timers,
                 reactions, reflexes, subs, properties>>

\* A timer calls the continuation that hook h of task list id got.
ProceedOneOf(id, h) ==
  /\ id \in 1..Len(runs)
  /\ h \in runs[id].next
  /\ runs[id].calls < MaxProceed
  /\ CommitWithin(MaxOverlap, proceed(Start, id, h, MaxDepth), "proceed", runs[id].r, h,
                  ToString(id), Null)
  /\ UNCHANGED <<prestates, poststates, initialstate, init, initcalls, timers,
                 reactions, reflexes, subs, properties>>

NextOverlap ==
  \/ \E v \in {"online", "offline"} : AssignWhilePending("P", v)
  \/ \E id \in 1..MaxOverlap : ProceedOneOf(id, "*")

InitOverlap ==
  /\ \E c \in OverlapConfigs : Constructed(c)
  /\ ReferenceManager(".none")
  /\ Page(FALSE)

SpecOverlap ==
  InitOverlap /\ [][NextOverlap]_vars

-----------------------------------------------------------------------------
(* Other arrangements of the three registries *)

\* Reactions of a child that shows the opposite of its parent, in states
\* named like the parent's.
Opposing ==
  [s \in {"online", "offline"} |-> IF s = "online" THEN "offline" ELSE "online"]

\* B is a registry of its own (no parent) that was given P's namespace.
Twin ==
  [Separate EXCEPT !["B"] = [namespace |-> "p.", parent |-> Null,
                             states |-> {"offline", "online"},
                             reactions |-> ObjNull, reflexes |-> << >>,
                             assigns |-> EmptyMap]]

\* B is a second child of P, constructed without a namespace.
Sibling ==
  [Separate EXCEPT !["B"] = [namespace |-> Undefined, parent |-> "P",
                             states |-> {"offline", "online"},
                             reactions |-> ObjNull, reflexes |-> << >>,
                             assigns |-> EmptyMap]]

\* B is a second child of P, constructed without a namespace, whose reactions
\* map P's states to its own states of the same names.
Inverse ==
  [Separate EXCEPT !["B"] = [namespace |-> Undefined, parent |-> "P",
                             states |-> {"offline", "online"},
                             reactions |-> Obj(Opposing), reflexes |-> << >>,
                             assigns |-> EmptyMap]]

\* P's handler of 'online' assigns this.state = 'offline'.
Redirecting ==
  [Separate EXCEPT !["P"].assigns = [s \in {"online"} |-> "offline"]]

Layouts ==
  {Separate, Twin, Sibling, Inverse, Redirecting}

\* Registries without hooks, initial state or init function, in each layout.
LayoutConfigs ==
  {[pre |-> ObjNull, post |-> ObjNull, initial |-> "default", init |-> NoInit,
    cpre |-> ObjNull, bpre |-> ObjNull, layout |-> l] : l \in Layouts}

\* The nesting of synchronous transitions that is followed before the call
\* stack counts as exhausted: long enough for a cycle of transitions to start
\* over.
CascadeDepth ==
  MaxDepth + MaxDepth

\* registry.state = v, with every transition it sets off.
AssignCascading(r, v) ==
  /\ Commit(SetState(Start, r, v, CascadeDepth), "assign", r, v, Null, Null)
  /\ UNCHANGED <<prestates, poststates, initialstate, init, initcalls, timers,
                 reactions, reflexes, subs, properties>>

NextLayouts ==
  \E r \in Regs :
    \E v \in {"online", "offline", "connected", "disconnected"} :
      AssignCascading(r, v)

InitLayouts ==
  /\ \E c \in LayoutConfigs : Constructed(c)
  /\ ReferenceManager(".none")
  /\ Page(FALSE)

SpecLayouts ==
  InitLayouts /\ [][NextLayouts]_vars

-----------------------------------------------------------------------------
(* Properties *)

\* The topic a registry emits `name` on.
Topic(r, name) ==
  scope(r) \o name

\* The last turn wrote the state of r (an update was applied to it).
Wrote(r) ==
  \E i \in 1..Len(out) : out[i].k = "write" /\ out[i].r = r

\* C1: the value of `state` is always a key of the registry's state map, and
\* assigning a name that is not a key throws, changes neither `state` nor
\* `previousState`, calls no hook and emits nothing.
C1_StateIsAlwaysAKey ==
  /\ \A r \in Regs : "default" \in states(r) /\ state[r] \in states(r)
  /\ (op.kind = "assign" /\ op.x # Null /\ op.x \notin states(op.r))
       => /\ exc = "InvalidState"
          /\ state = op.before
          /\ previousstate = op.pbefore
          /\ \A i \in 1..Len(out) : out[i].k = "throw"

\* C2: assigning `state` the value it holds does nothing: no hook or handler
\* is called, nothing is emitted, `state` and `previousState` stay.
C2_SameValueIsNoOp ==
  (op.kind = "assign" /\ op.x = op.before[op.r])
    => /\ out = << >>
       /\ exc = NoExc
       /\ state = op.before
       /\ previousstate = op.pbefore
       /\ runs = SelectSeq(runs, LAMBDA x : x.r # op.r \/ x.called # << >>)

\* C2: the state held was reached through hooks, and it is assigned again.
C2_Witness ==
  /\ op.kind = "assign" /\ op.r = "P" /\ op.x = "online"
  /\ op.before["P"] = "online"
  /\ managesPreState("P", "*") /\ managesPostState("P", "online")

\* C3, as stated: once a pre-state hook of a transition has returned false, no
\* later hook and no part of the update (state write, handler, state.changed,
\* post-state hooks) of that transition runs.
C3_FalseAborts ==
  \A i \in 1..Len(out) :
    out[i].k \in {"prehook", "write", "handler", "posthook"} => out[i].run.refused = {}

\* The hooks of a task list that declare no continuation and returned false.
vetoes(run) ==
  {h \in run.refused : prestates[run.r].map[h].arity # 3}

\* C3, amended: once a pre-state hook that does not declare the continuation
\* parameter has returned false, no later hook and no part of the update of
\* that transition runs or emits, and `state` and `previousState` of the
\* registry stay.
C3_SyncFalseAborts ==
  /\ \A i \in 1..Len(out) :
       out[i].k \in {"prehook", "write", "handler", "posthook"} => vetoes(out[i].run) = {}
  /\ \A i \in 1..Len(out) :
       (out[i].k = "prehook" /\ prestates[out[i].r].map[out[i].x] = Veto)
         => /\ \A j \in 1..Len(out) : j > i => out[j].r # out[i].r
            /\ state[out[i].r] = op.before[out[i].r]
            /\ previousstate[out[i].r] = op.pbefore[out[i].r]

\* C3: the global hook vetoes a transition to 'online', which has a hook of
\* its own.
C3_Witness ==
  /\ op.kind = "assign" /\ op.x = "online"
  /\ Len(out) = 1 /\ out[1].k = "prehook" /\ out[1].x = "*"
  /\ prestates["P"].map["*"] = Veto
  /\ managesPreState("P", "online")

\* C4: the global hook is called before the hook of the target state, and the
\* update of a transition (state write, handler) runs only when every hook of
\* the transition has completed, a hook with a continuation parameter by a
\* call of it.
C4_UpdateAfterEveryHook ==
  \A i \in 1..Len(out) :
    /\ (out[i].k = "prehook" /\ out[i].x # "*" /\ "*" \in out[i].run.hooks)
         => "*" \in out[i].run.done
    /\ out[i].k \in {"write", "handler"} => out[i].run.hooks \subseteq out[i].run.done

\* The entries of r's update in the last turn: what and which name.
UpdateTrace(r) ==
  LET es == SelectSeq(out, LAMBDA e :
              /\ e.r = r
              /\ \/ e.k \in {"handler", "posthook"}
                 \/ e.k = "emit" /\ e.x = Topic(r, "state.changed"))
  IN [i \in 1..Len(es) |-> <<es[i].k, es[i].x>>]

\* The order C5 states for an update of r that was assigned `value`.
ExpectedTrace(r, value) ==
  << <<"handler", Trim(value)>>, <<"emit", Topic(r, "state.changed")>> >>
  \o (IF managesPostState(r, "*") THEN << <<"posthook", "*">> >> ELSE << >>)
  \o (IF managesPostState(r, value) THEN << <<"posthook", value>> >> ELSE << >>)

\* C5: a completed transition to X calls the X handler, then emits
\* state.changed, then calls the global post-state hook, then the X post-state
\* hook, and both hooks see `state` equal to X.
C5_OrderOfEffects ==
  \A i \in 1..Len(out) :
    (out[i].k = "write" /\ exc = NoExc)
      => /\ UpdateTrace(out[i].r) = ExpectedTrace(out[i].r, out[i].run.value)
         /\ \A j \in 1..Len(out) :
              (out[j].k = "posthook" /\ out[j].r = out[i].r)
                => j > i /\ out[j].st = out[i].run.value

\* C5: a transition of P to 'online' ran both post-state hooks, with the
\* cascades to C and B inside it.
C5_Witness ==
  /\ exc = NoExc
  /\ UpdateTrace("P") = << <<"handler", "online">>, <<"emit", "p.state.changed">>,
                           <<"posthook", "*">>, <<"posthook", "online">> >>
  /\ Wrote("C") /\ Wrote("B")

\* C6: the X handler is called with {old: A, new: X}, state.changed carries
\* the same object, and previousState is A afterwards.
C6_ChangeObject ==
  \A i \in 1..Len(out) :
    out[i].k = "write"
      => LET r == out[i].r
             A == op.before[r]
             X == out[i].x
         IN /\ \A j \in 1..Len(out) :
                 (out[j].r = r /\ out[j].k = "handler")
                   => out[j].p.old = A /\ out[j].p.new = X
            /\ \A j \in 1..Len(out) :
                 (out[j].r = r /\ out[j].k = "emit" /\ out[j].x = Topic(r, "state.changed"))
                   => out[j].p.old = A /\ out[j].p.new = X
            /\ PreviousState([previousstate |-> previousstate], r) = A

Count(r, k) ==
  Len(SelectSeq(out, LAMBDA e : e.r = r /\ e.k = k))

\* C9: within one state assignment the update is applied at most once: the
\* task list of every write has applied it once, no registry is written or has
\* its handler called twice in a turn, and a continuation called on a task
\* list that has been updated starts no update.
C9_UpdateAtMostOnce ==
  /\ \A i \in 1..Len(runs) : runs[i].applied <= 1
  /\ \A i \in 1..Len(out) : out[i].k = "write" => out[i].run.applied = 1
  /\ \A r \in Regs : Count(r, "write") <= 1 /\ Count(r, "handler") <= 1
  /\ \A i \in 1..Len(out) :
       (out[i].k = "continuation" /\ out[i].run.updated)
         => \A j \in 1..Len(out) :
              (j > i /\ out[j].r = out[i].r)
                => out[j].k \notin {"write", "handler", "posthook"}

\* C9: a continuation is called a second time, on a task list whose update
\* has been applied.
C9_Witness ==
  /\ op.kind = "proceed"
  /\ Len(out) >= 1 /\ out[1].k = "continuation"
  /\ out[1].run.updated /\ out[1].run.applied = 1 /\ out[1].run.calls = 2
  /\ state["P"] = out[1].run.value

\* The payloads the last turn emitted on `topic`.
Emitted(topic) ==
  LET es == SelectSeq(out, LAMBDA e : e.k = "emit" /\ e.x = topic)
  IN [i \in 1..Len(es) |-> es[i].p]

C11_InitialStateObserved ==
  /\ op.kind = "construct" => \A r \in Regs : state[r] = "default"
  /\ op.kind = "initial"
       => /\ state[op.r] = initialstate[op.r]
          /\ \E i \in 1..Len(out) :
               /\ out[i].k = "observe"
               /\ out[i].x = Topic(op.r, "state.changed")
               /\ out[i].p.new = initialstate[op.r]

\* The requeued 'initialized' emissions of r that are due.
Due(r) ==
  Len(SelectSeq(timers, LAMBDA t : t = [r |-> r, fn |-> "initialized"]))

Referenced ==
  querySelectorAll(document, sel)

\* The on() calls and the once() calls that have a listener attached.
OnRegs ==
  {listeners[j].wrapper.fn.reg :
     j \in {i \in 1..Len(listeners) : listeners[i].wrapper.fn.kind = "user"}}

OnceRegs ==
  {listeners[j].wrapper.fn.reg :
     j \in {i \in 1..Len(listeners) : listeners[i].wrapper.fn.kind = "once"}}

\* The calls of the user's handler the last turn made for the on() or once()
\* call number reg.
Invocations(reg) ==
  SelectSeq(out, LAMBDA e : e.k = "handler" /\ e.p.new = ToString(reg))

\* The nodes that have a listener of the on() or once() call number reg.
ListenedNodes(reg) ==
  {listeners[j].node :
     j \in {i \in 1..Len(listeners) : listeners[i].wrapper.fn.reg = reg}}

\* The matched elements are two or more and share one parent.
SharedParent ==
  /\ Len(Referenced) >= 2
  /\ \A i \in 1..Len(Referenced) : parentNode(Referenced[i]) = parentNode(Referenced[1])

\* C13: when the matched elements, two or more, share one parent, a click on
\* one of them calls the handler of every on() call exactly once, with the
\* event as its argument and the clicked element, not the parent, as the
\* event's referenceElement.
C13_SharedParentOnce ==
  (op.kind = "click" /\ SharedParent /\ \E i \in 1..Len(Referenced) : Referenced[i] = op.x)
    => \A reg \in OnRegs :
         /\ Len(Invocations(reg)) = 1
         /\ Invocations(reg)[1].x = op.x
         /\ Invocations(reg)[1].p.property = "argument"

\* A click on one of three siblings reached the one listener on their parent.
C13_Witness ==
  /\ op.kind = "click"
  /\ SharedParent
  /\ \E i \in 1..Len(Referenced) : Referenced[i] = op.x
  /\ \E reg \in OnRegs :
       /\ ListenedNodes(reg) = {parentNode(op.x)}
       /\ Len(Invocations(reg)) = 1

\* The last turn was an on() or once() call of a reference that has complex
\* compression switched to `complex`.
Attached(complex) ==
  /\ op.kind \in {"on", "once"}
  /\ objects[manager[op.r]].smartevents
  /\ objects[manager[op.r]].deepcollapse = complex

\* How many listeners the on() or once() call number reg has on node n.
ListenersOn(reg, n) ==
  Len(SelectSeq(listeners, LAMBDA l : l.wrapper.fn.reg = reg /\ l.node = n))

\* The last on() or once() call attached exactly one listener to every node
\* of `nodes` and none to any other node.
AttachedTo(nodes) ==
  \A n \in Nodes : ListenersOn(registered, n) = IF n \in nodes THEN 1 ELSE 0

ReferencedSet ==
  {Referenced[i] : i \in 1..Len(Referenced)}

\* The distinct immediate parents of the matched elements.
Parents ==
  {parentNode(n) : n \in ReferencedSet}

Unmapped ==
  /\ op.kind = "click"
  /\ op.x \notin ReferencedSet
  /\ Ancestors(op.x) \cap ReferencedSet = {}
  /\ reached(listeners, Path(op.x), "click") # << >>

\* C15: an event that reaches a reference's listener and whose target is
\* neither a referenced element nor a descendant of one calls no handler and
\* is dropped silently: nothing is thrown.
C15_UnmappedDropped ==
  Unmapped
    => /\ \A i \in 1..Len(out) : out[i].k # "handler"
       /\ \A i \in 1..Len(out) : out[i].k # "throw"
       /\ exc = NoExc

\* The nodes at the root of the document: the root element and the body.
DocumentRoot ==
  {"html", "body"}

\* C16: with complex compression enabled and parents / elements at 0.5 or
\* more, on() and once() attach one listener to each matched element when the
\* average gap is below the median gap, when it is 10 or more, or when the
\* nearest common ancestor is the document root; otherwise they attach
\* exactly one listener, to the nearest common ancestor.
C16_ComplexCompression ==
  (/\ Attached(TRUE)
   /\ Cardinality(ReferencedSet) >= 2
   /\ 2 * Cardinality(Parents) >= Cardinality(ReferencedSet))
    => LET ancestor == getCommonAncestorDetail(Referenced)
       IN IF \/ 2 * ancestor.gap.sum < ancestor.gap.median2 * ancestor.gap.count
             \/ ancestor.gap.sum >= GapLimit * ancestor.gap.count
             \/ ancestor.element \in DocumentRoot
          THEN AttachedTo(ReferencedSet)
          ELSE AttachedTo({ancestor.element})

\* The name is one of the manager's keys.
InKeys(key) ==
  \E j \in 1..Len(keys) : keys[j] = key

\* What C17 says of one step.
RemoveThenCreate ==
  /\ (op.kind = "remove" /\ op'.kind = "create" /\ op'.r = op.r)
       => /\ exc = NoExc
          /\ exc' = NoExc
          /\ manager'[op.r] # 0
          /\ objects'[manager'[op.r]].activeselector = sel
          /\ element(objects[manager[op.r]])' = element(HTMLReferenceElement(sel))
  /\ (op'.kind = "remove") => (document' = document)
  /\ \A key \in Keys :
       /\ (op'.kind = "remove" /\ op'.r = key) => ~InKeys(key)'
       /\ (~InKeys(key) /\ InKeys(key)') => (op'.kind = "create" /\ op'.r = key)

\* C17: remove(name) followed by create(name, selector) does not throw and
\* leaves under the name a reference that resolves the selector; remove takes
\* no node out of the document, and after it the name is not among the keys
\* until it is created again.
C17_RemoveThenCreate ==
  [][RemoveThenCreate]_vars

\* C18: the complex-compression flag of every registered reference equals
\* the manager's flag.
C18_FlagAppliesToAll ==
  \A key \in Keys :
    manager[key] # 0 => objects[manager[key]].deepcollapse = deepcollapse

\* What C19 says of one step, for the once() calls that have a listener.
OnceAtMostOnce ==
  \A reg \in OnceRegs :
    /\ Len(Invocations(reg)') <= 1
    /\ Len(Invocations(reg)) >= 1 => Len(Invocations(reg)') = 0

\* C19: a handler registered with once() is called at most once: never twice
\* for one event, and when an event called it the next event does not call
\* it again.
C19_OnceAtMostOnce ==
  [][OnceAtMostOnce]_vars

\* The on() calls of reference object `me` with that handler.
OnRegsOf(me, handler) ==
  {listeners[j].wrapper.fn.reg :
     j \in {i \in 1..Len(listeners) :
              /\ listeners[i].wrapper.fn.kind = "user"
              /\ listeners[i].wrapper.fn.me = me
              /\ listeners[i].wrapper.fn.handler = handler}}

\* What C20 says of one step: the click that follows off().
OffDetaches ==
  (op.kind = "off" /\ op'.kind = "click")
    => \A reg \in OnRegsOf(manager[op.r], op.x) : Len(Invocations(reg)') = 0

\* C20: after off(event, handler) on a reference, a later event on a
\* referenced element no longer calls the handler that on(event, handler)
\* registered on that reference.
C20_OffDetaches ==
  [][OffDetaches]_vars

\* r holds a subscription of its reflex handler to the state changes of p.
ReflexSubscribed(r, p) ==
  \E i \in DOMAIN subs :
    /\ subs[i].fn = "reflex" /\ subs[i].owner = r /\ subs[i].registry = p
    /\ subs[i].topic = Topic(p, "state.changed")

\* The step is an assignment that takes registry p into state s.
Enters(p, s) ==
  /\ op'.kind = "assign" /\ op'.r = p
  /\ state[p] # s /\ state'[p] = s

\* removeReflex(p, s) of a mapping the registry has: the call returns, the
\* record of p has lost s and nothing else, and the subscription to p is
\* gone exactly if no mapping is left.
RemoveReflexStep ==
  \A r \in Linked : \A p \in Peers : \A s \in Sources :
    (/\ op'.kind = "removeReflex" /\ op'.r = r /\ op'.old = p /\ op'.x = s
     /\ ~getRegistryReflexReactions(r, p).null
     /\ s \in DOMAIN getRegistryReflexReactions(r, p).map)
    => /\ exc' = NoExc
       /\ \/ getRegistryReflexReactions(r, p)'.null
          \/ getRegistryReflexReactions(r, p)'.map =
               deleted(getRegistryReflexReactions(r, p).map, s)
       /\ ReflexSubscribed(r, p)' <=>
            (DOMAIN getRegistryReflexReactions(r, p).map # {s})
       /\ (DOMAIN getRegistryReflexReactions(r, p).map # {s})
            => ~getRegistryReflexReactions(r, p)'.null

\* C21: removeReflex(peer, s) removes only the mapping for s; with the last
\* mapping the subscription to the peer's state.changed is detached, and
\* while other mappings remain the record and the subscription stay, so
\* they keep cascading.
C21_RemoveReflex ==
  [][RemoveReflexStep]_vars

\* createReflex(p, s, t) returns, after it the registry has exactly one record
\* for p, which maps s to t, and is subscribed to p; a transition of p to s
\* right after it takes the registry to t.
CreateReflexStep ==
  /\ \A r \in Linked : \A p \in Peers : \A s \in Created : \A t \in Reacts :
       (op'.kind = "createReflex" /\ op'.r = r /\ op'.old = p /\ op'.x = s
        /\ op'.new = t)
       => /\ exc' = NoExc
          /\ Len(getRegistryReflex(r, p))' = 1
          /\ ~getRegistryReflexReactions(r, p)'.null
          /\ hasOwnProperty(getRegistryReflexReactions(r, p)'.map, s)
          /\ getRegistryReflexReactions(r, p)'.map[s] = t
          /\ ReflexSubscribed(r, p)'
  /\ \A r \in Linked : \A p \in Peers :
       (op.kind = "createReflex" /\ op.r = r /\ op.old = p /\ Enters(p, op.x))
       => state'[r] = op.new

\* C22: after createReflex(peer, s, t) returns, for a peer that has a reflex
\* record as for a new one, the reflex list holds exactly one record for the
\* peer and a later transition of the peer to s sets the state to t.
C22_CreateReflex ==
  [][CreateReflexStep]_vars

\* The registries whose reflexes were cleared: configured with some, none now.
Cleared(r) ==
  cfgReflexes(r) # << >> /\ reflexes[r] = << >>

ReactionStep ==
  /\ \A r \in Linked : \A s \in Created : \A t \in Reacts :
       (op'.kind = "createReaction" /\ op'.r = r /\ op'.x = s /\ op'.new = t)
       => IF parent(r) # Null
            THEN /\ exc' = NoExc
                 /\ managesReaction(r, s)'
                 /\ Reactions(r)'[s] = t
            ELSE /\ exc' = NoExc
                 /\ reactions' = reactions /\ subs' = subs /\ state' = state
  /\ \A r \in Linked :
       (op.kind = "createReaction" /\ op.r = r /\ parent(r) # Null
        /\ Enters(parent(r), op.x))
       => state'[r] = op.new
  /\ \A r \in Linked :
       (op.kind = "removeReaction" /\ op.r = r /\ parent(r) # Null
        /\ Enters(parent(r), op.x))
       => state'[r] = state[r]

\* C24: for a registry with a parent, with or without configured reactions
\* and also after clearReactions(), createReaction(s, t) makes a parent
\* transition to s set the state to t and removeReaction(s) ends that;
\* without a parent createReaction changes nothing.
C24_Reactions ==
  [][ReactionStep]_vars

\* A configuration the constructor of the registry has to refuse: none or no
\* object, no selector or one that is no string, a selector that matches no
\* element, or a parent whose selector matches no element.
Refused(cfg) ==
  \/ cfg.given # "object"
  \/ cfg.selector.type # "string"
  \/ select(document, Null, cfg.selector.value) = << >>
  \/ cfg.parent # Null /\ select(document, Null, selectorOf(cfg.parent)) = << >>

\* A construction with such a configuration throws and leaves no view, no
\* subscription, no requeued callback and no reference behind.
ConstructRefuses ==
  \A cfg \in RegistryConfigs :
    (op'.kind = "construct" /\ op'.x = cfg /\ Refused(cfg))
    => /\ exc' = "Error"
       /\ views' = views
       /\ subs' = subs
       /\ timers' = timers
       /\ objects' = objects /\ manager' = manager /\ collection' = collection

\* C25: constructing a registry with a missing or non-object cfg, a missing or
\* non-string selector, a selector matching no element, or a parent whose
\* selector matches no element throws at construction, and no registry
\* object, subscription or reference entry results.
C25_ConstructRefuses ==
  [][ConstructRefuses]_vars

\* A registry was constructed, P's element then left the document, and the
\* construction of a child of P was refused.
C25_Witness ==
  /\ op.kind = "construct" /\ exc = "Error"
  /\ op.x.class = "Registry" /\ op.x.parent = "P"
  /\ op.x.selector.type = "string"
  /\ "main" \notin document
  /\ Len(views) > 0

\* The names of the components among the views.
Components ==
  {views[i].name : i \in {j \in DOMAIN views : views[j].class = "Component"}}

\* C30: every component gets a unique namespace segment: two components,
\* siblings with the same or with no `namespace`, have different namespaces,
\* and what one emits is never received by a subscription of another.
C30_UniqueNamespace ==
  /\ \A i, j \in DOMAIN views :
       (i # j /\ views[i].class = "Component" /\ views[j].class = "Component")
       => views[i].scope # views[j].scope
  /\ (op.kind = "emit" /\ op.x \in Components)
       => \A k \in DOMAIN out :
            (out[k].k = "observe" /\ out[k].r \in Components) => out[k].r = op.x

\* The step is the timeout of a mutation that removed P's element while
\* monitoring is on: element.removed is emitted with the element, monitoring
\* goes off and monitoring.disabled is emitted.
TimeoutEmits ==
  (/\ op'.kind = "timeout"
   /\ pending # << >>
   /\ monitoring
   /\ \E i \in DOMAIN Head(pending).removedNodes :
        Head(pending).removedNodes[i] = boundElement("P"))
  => /\ \E i \in DOMAIN out' :
          /\ out'[i].k = "emit" /\ out'[i].x = Topic("P", "element.removed")
          /\ out'[i].p = NamePayload(boundElement("P"))
     /\ \E i \in DOMAIN out' :
          out'[i].k = "emit" /\ out'[i].x = Topic("P", "monitoring.disabled")
     /\ ~monitoring'
     /\ emitted' = 1

\* C26: with element monitoring enabled, the removal of the bound element
\* from its parent, with or without nodes added in the same mutation, leads
\* to one element.removed emission that carries the element, after which
\* monitoring is disabled and monitoring.disabled emitted: element.removed is
\* emitted at most once per enable.
C26_ElementRemoved ==
  [][TimeoutEmits /\ emitted' <= 1]_vars

\* The pre-state hooks of r declare no continuation and none returns false.
NoneRefuses(r) ==
  /\ ~prestates[r].null
  /\ \A h \in DOMAIN prestates[r].map :
       synchronous(prestates[r].map[h]) /\ prestates[r].map[h].ret # "false"

\* C27: a pre-state hook that does not declare the continuation parameter
\* and returns any value other than false (undefined, null, 0, '' or true)
\* lets the transition continue at once: the assignment of a managed state
\* whose handler does not throw has updated the state when it returns.
C27_NonFalseContinues ==
  \A r \in Regs :
    (/\ op.kind = "assign" /\ op.r = r
     /\ NoneRefuses(r)
     /\ managesState(r, op.x) /\ op.x \notin throwing(r)
     /\ op.before[r] # op.x)
    => /\ state[r] = op.x
       /\ \E i \in DOMAIN out : out[i].k = "handler" /\ out[i].r = r /\ out[i].x = op.x

\* A state handler that throws was called in this turn.
HandlerThrew ==
  \E i \in DOMAIN out : out[i].k = "handler" /\ out[i].x \in throwing(out[i].r)

Cascades(d, s) ==
  IF parent(d) = "P" /\ managesReaction(d, s) THEN Reactions(d)[s]
  ELSE IF /\ ~getRegistryReflexReactions(d, "P").null
          /\ ReflexSubscribed(d, "P")
          /\ hasOwnProperty(getRegistryReflexReactions(d, "P").map, s)
    THEN getRegistryReflexReactions(d, "P").map[s]
  ELSE Null

\* The entries of the turn that belong to a transition of d.
TransitionOf(d) ==
  {i \in DOMAIN out :
     /\ out[i].r = d
     /\ \/ out[i].k \in {"write", "handler", "posthook"}
        \/ out[i].k = "emit" /\ out[i].x \in {Topic(d, "state.changed"),
                                              Topic(d, "state.postprocess")}}

\* The whole transition of d to t is in the turn, in order, after entry e.
Finished(d, t, e) ==
  \E w, h, c \in DOMAIN out :
    /\ e < w /\ w < h /\ h < c
    /\ out[w].k = "write" /\ out[w].r = d /\ out[w].x = t
    /\ out[h].k = "handler" /\ out[h].r = d /\ out[h].x = t
    /\ out[c].k = "emit" /\ out[c].x = Topic(d, "state.changed")
    /\ \A hook \in {"*", t} : managesPostState(d, hook) =>
         \E p \in DOMAIN out :
           c < p /\ out[p].k = "posthook" /\ out[p].r = d /\ out[p].x = hook

Listed ==
  op.x.sync

\* C31: the sync files are requested one at a time in the listed order, each
\* after the one before it has loaded; no async file is requested before
\* every sync file has loaded; and the callback runs (or the event is
\* emitted) at most once, only when every sync and async file has loaded,
\* also when the async list is empty.
C31_LoaderOrder ==
  /\ \A i \in DOMAIN loader.gets :
       loader.gets[i].kind = "sync"
         => \A j \in 1..(i - 1) : loader.gets[j].file \in loader.gets[i].after
  /\ \A i, j \in DOMAIN loader.gets :
       (loader.gets[i].kind = "sync" /\ loader.gets[j].kind = "async") => i < j
  /\ \A i \in DOMAIN loader.gets :
       loader.gets[i].kind = "async"
         => \A j \in DOMAIN loader.gets :
              loader.gets[j].kind = "sync" => loader.gets[j].file \in loader.gets[i].after
  /\ Len(loader.calls) <= 1
  /\ \A i \in DOMAIN loader.calls :
       /\ loader.requests = {}
       /\ loader.sync = << >>
       /\ Members(loader.async) \subseteq loader.calls[i].loaded

\* C33: every change of the value of `state`, by whatever path, comes with
\* exactly one state.changed emission of that registry, whose `old` is the
\* value before and whose `new` is the value after.
C33_EveryChangeEmitted ==
  \A r \in Regs :
    state[r] # op.before[r]
      => Emitted(Topic(r, "state.changed")) = << Change(op.before[r], state[r]) >>

\* C35: the requeued initial-state transition does not override an explicit
\* choice: when the state of the registry was changed by an assignment
\* before the tick of the transition, the state after the tick is the one
\* it had before it.
C35_InitialKeepsChoice ==
  (op.kind = "initial" /\ op.pbefore[op.r] # Null)
    => state[op.r] = op.before[op.r]

\* C36: when `initialized` is emitted for a registry with a valid
\* initialState other than 'default', whose state no assignment has changed,
\* every subscriber of `initialized` finds `state` equal to initialState.
C36_InitializedAfterInitial ==
  \A i \in DOMAIN out :
    (/\ op.kind = "requeued"
     /\ out[i].k = "observe" /\ out[i].r = op.r
     /\ out[i].x = Topic(op.r, "initialized")
     /\ initialRequeued(op.r, initialstate[op.r])
     /\ op.pbefore[op.r] = Null)
    => out[i].st = initialstate[op.r]

\* A sequence without its member number id.
Others(seq, id) ==
  [k \in 1..(Len(seq) - 1) |-> IF k < id THEN seq[k] ELSE seq[k + 1]]

\* The state of r when entry i of the log of a turn was made: what the last
\* write before it left, or the state before the turn.
StateAt(log, before, r, i) ==
  LET writes == {j \in 1..(i - 1) : log[j].k = "write" /\ log[j].r = r}
  IN IF writes = {} THEN coalesce2(before[r], "default")
     ELSE log[CHOOSE j \in writes : \A k \in writes : k <= j].x

\* The hooks of a task list that are still to run after the continuation of
\* hook h was called all approve at once.
RestApproves(run, h) ==
  \A g \in run.hooks \ (run.done \cup {h}) :
    /\ synchronous(prestates[run.r].map[g])
    /\ Truthy(continueProcessing(prestates[run.r].map[g]))

\* The step is the call of a continuation of task list id: the other task
\* lists are as they were; if with this call every hook of the task list has
\* approved, its update is applied; and every hook called got the state of
\* the registry at that moment.
IndependentStep ==
  /\ \A id \in DOMAIN runs :
       (op'.kind = "proceed" /\ op'.old = ToString(id))
         => /\ IF Len(runs') = Len(runs)
                 THEN Others(runs', id) = Others(runs, id)
                 ELSE runs' = Others(runs, id)
            /\ (~runs[id].updated /\ ~runs[id].skip /\ RestApproves(runs[id], op'.x))
                 => /\ state'[runs[id].r] = Trim(runs[id].value)
                    /\ \E i \in DOMAIN out' :
                         /\ out'[i].k = "write" /\ out'[i].r = runs[id].r
                         /\ out'[i].x = Trim(runs[id].value)
  /\ \A i \in DOMAIN out' :
       out'[i].k = "prehook"
         => /\ out'[i].p.old = StateAt(out', state, out'[i].r, i)
            /\ out'[i].p.new = out'[i].run.value

\* C32: assignments made while the hook of an earlier assignment is pending
\* are independent transitions: the abort of one (its hook returns false)
\* neither cancels nor alters another pending one, which completes when its
\* own hooks have finished, and each hook receives as currentState the
\* registry's state at the moment the hook is called.
C32_Independent ==
  [][IndependentStep]_vars

\* Two assignments were pending; the later one, of 'offline', was aborted by
\* its hook, and then the earlier one, of 'online', was applied.
C32_Witness ==
  /\ op.kind = "proceed" /\ op.old = "1"
  /\ Len(runs) = 2
  /\ runs[2].refused # {} /\ runs[2].skip /\ ~runs[2].updated
  /\ runs[1].updated /\ runs[1].value = "online"
  /\ state["P"] = "online"

\* C34: no state.changed is emitted with `old` equal to `new`, and no update
\* writes the state and calls the handler for the state that is current
\* already, also when assignments of the same state overlap.
C34_NoSelfTransition ==
  \A i \in DOMAIN out :
    /\ out[i].k = "write" => out[i].p.old # out[i].p.new
    /\ \A r \in Regs :
         (out[i].k = "emit" /\ out[i].x = Topic(r, "state.changed"))
           => out[i].p.old # out[i].p.new

\* C39: one bubbling click whose target is a referenced element or inside one
\* calls the handler of every on() call that has listeners exactly once,
\* whatever the shape of the document and the outcome of the compression.
C39_HandlerOnce ==
  (/\ op.kind = "click"
   /\ \/ op.x \in ReferencedSet
      \/ Ancestors(op.x) \cap ReferencedSet # {})
    => \A reg \in OnRegs : Len(Invocations(reg)) = 1

\* The places of the last turn's log where registry r wrote its state.
Writes(r) ==
  {i \in DOMAIN out : out[i].k = "write" /\ out[i].r = r}

StateChanges(r) ==
  LET es == SelectSeq(out, LAMBDA e : /\ e.k = "emit"
                                      /\ e.r = r
                                      /\ e.x = Topic(r, "state.changed"))
  IN [i \in 1..Len(es) |-> es[i].p]

\* An assignment of registry r waits for the continuation of a hook.
InProgress(r) ==
  \E i \in DOMAIN runs : runs[i].r = r /\ runs[i].next # {}

\* A child that has a reaction to the state its parent is in, with no
\* assignment of either in progress.
Covered(d) ==
  /\ parent(d) # Null
  /\ managesReaction(d, state[parent(d)])
  /\ ~InProgress(d)
  /\ ~InProgress(parent(d))

\* C40: when no assignment is in progress, the `new` of the state.changed a
\* registry emitted last is its state, and a child whose reactions cover that
\* state holds the state they map it to, also when a state handler assigns
\* `state` inside the transition.
C40_LastChangeIsState ==
  (op.kind = "assign" /\ exc = NoExc) =>
    \A r \in Regs :
      (/\ StateChanges(r) # << >>
       /\ ~InProgress(r))
        => /\ StateChanges(r)[Len(StateChanges(r))].new = state[r]
           /\ \A d \in Regs :
                (Covered(d) /\ parent(d) = r) => state[d] = Reactions(d)[state[r]]

=============================================================================
